---- MODULE Spec2Model ----
(***************************************************************************)
(* Model of nvtripy's Executable (tripy/nvtripy/backend/api/executable.py):*)
(* the calling convention of Executable.__call__ (bind, materialize,       *)
(* invoke, translate, wrap) and the signature data it reads.               *)
(*                                                                         *)
(* Python values are modelled as follows.                                  *)
(*   - a list / tuple is a TLA+ sequence; Python's 0-based index i is the  *)
(*     TLA+ index i + 1, error reports keep Python's 0-based index;        *)
(*   - the **kwargs dict is a sequence of [name, value] records with       *)
(*     distinct names, in insertion order (dict order is observable in     *)
(*     list(kwargs.keys()));                                               *)
(*   - str(err) of a backend exception is the set of the known phrases it  *)
(*     contains, so `phrase in str(err)` is set membership;                *)
(*   - an exception leaving __call__ is a record in `result`.              *)
(***************************************************************************)
EXTENDS Integers, Sequences, FiniteSets, TLC

\* ------------------------------------------------------------------ bounds
\* Largest declared arity of an Executable in the binding universe.
MaxArgs == 2
\* Largest tensor / signature rank in the translation universe.
MaxRank == 2
\* The size of a dimension that exceeds the dynamic window (1, MaxDim - 1).
MaxDim == 5
\* Largest number of outputs of a compiled function.
MaxOutputs == 2

\* ------------------------------------------------------------ basic values
AllNames == <<"a", "b", "c", "d", "e", "f">>

\* Names an Executable may declare, and names a caller may use as keywords
\* (one more than can be declared, so an unknown keyword exists).
DeclNames == {AllNames[i] : i \in 1..MaxArgs}

KwNames == {AllNames[i] : i \in 1..(MaxArgs + 1)}

NoName == "<none>"

InjSeqs(S, n) ==
  UNION {{s \in [1..m -> S] : \A i, j \in 1..m : s[i] = s[j] => i = j} : m \in 0..n}

SeqsUpTo(S, n) == UNION {[1..m -> S] : m \in 0..n}

MinOf(x, y) == IF x <= y THEN x ELSE y

\* The substrings of str(err) that __call__ looks for.
DTYPE_PHRASE == "function expects a memref type with element type"

SET_SHAPE_PHRASE == "InternalError: failed to set input shape"

SHAPE_MISMATCH_PHRASE == "Runtime shape mismatch"

STRIDE_PHRASE == "Runtime stride mismatch"

Phrases == {DTYPE_PHRASE, SET_SHAPE_PHRASE, SHAPE_MISMATCH_PHRASE, STRIDE_PHRASE}

\* Every backend message, up to which of the known phrases it contains.
Messages == SUBSET Phrases

\* runtime.MTRTException(msg)
MTRTException(msg) == [exception |-> "MTRTException", msg |-> msg]

NoError == [exception |-> "None"]

\* mlir_utils.convert_runtime_dtype_to_tripy_dtype: runtime scalar type code
\* to the frontend dtype.
RuntimeDTypes == {"f32", "i32"}

convert_runtime_dtype_to_tripy_dtype(code) ==
  CASE code = "f32" -> "float32"
    [] code = "i32" -> "int32"

DTypes == {convert_runtime_dtype_to_tripy_dtype(c) : c \in RuntimeDTypes}

\* A frontend Tensor handed to __call__: its identity, dtype and shape.
Tensor(id, dtype, shape) == [id |-> id, dtype |-> dtype, shape |-> shape]

\* ---------------------------------------------- the compiled artifact's signature
\* One argument of the runtime function signature: its memref element type and
\* literal shape (signature.get_arg(idx)) and its bounds
\* (signature.get_arg_bound(idx).min() / .max(), empty for a static shape).
SigArg(dtype, shape, min, max) == [dtype |-> dtype, shape |-> shape, min |-> min, max |-> max]

\* A statically shaped argument: no bounds recorded.
StaticArg(dtype, shape) == SigArg(dtype, shape, <<>>, <<>>)

\* A dynamically shaped argument: one (min, max) window per dimension.
DynamicArg(dtype, min, max) == SigArg(dtype, [i \in 1..Len(min) |-> -1], min, max)

\* The function signature of "main": inputs first, then outputs.
FunctionSignature(inputs, outputs) ==
  [args |-> inputs \o outputs, num_input_args |-> Len(inputs), num_output_args |-> Len(outputs)]

\* runtime.Executable: the compiled artifact, holding the signature of "main".
RuntimeExecutable(sig) == [main |-> sig]

\* executable.get_signature("main")
get_signature(exe) == exe.main

get_num_input_args(sig) == sig.num_input_args

get_num_output_args(sig) == sig.num_output_args

\* zip(xs, ys): pairs up to the shorter length.
Zip(xs, ys) == [i \in 1..MinOf(Len(xs), Len(ys)) |-> <<xs[i], ys[i]>>]

\* ArgInfo(shape_bounds, dtype)
ArgInfo(shape_bounds, dtype) == [shape_bounds |-> shape_bounds, dtype |-> dtype]

\* _get_arg_info without the fallback to the literal shape.
get_arg_infoNoFallback(sig, idx) ==
  LET arg == sig.args[idx + 1]
  IN ArgInfo(Zip(arg.min, arg.max), convert_runtime_dtype_to_tripy_dtype(arg.dtype))

\* Executable._get_arg_info(idx); idx is Python's 0-based index.
get_arg_info(sig, idx) ==
  LET arg == sig.args[idx + 1]
      zipped == Zip(arg.min, arg.max)
      shape_bounds == IF Len(zipped) = 0
                      THEN [d \in 1..Len(arg.shape) |-> <<arg.shape[d], arg.shape[d]>>]
                      ELSE zipped
  IN ArgInfo(shape_bounds, convert_runtime_dtype_to_tripy_dtype(arg.dtype))

\* Executable._get_input_info()
get_input_info(sig) == [i \in 1..get_num_input_args(sig) |-> get_arg_info(sig, i - 1)]

\* Executable._get_output_info()
get_output_info(sig) ==
  [i \in 1..get_num_output_args(sig) |-> get_arg_info(sig, (i - 1) + get_num_input_args(sig))]

\* The return annotation chosen by "at least one output".
return_annotationNonEmpty(sig) ==
  IF get_num_output_args(sig) >= 1 THEN "Tensor" ELSE "Sequence[Tensor]"

\* The return annotation __init__ puts in __signature__.
return_annotation(sig) == IF get_num_output_args(sig) = 1 THEN "Tensor" ELSE "Sequence[Tensor]"

\* inspect.Signature(params, return_annotation) built by __init__.
Signature(names, sig) ==
  [parameters |-> [i \in 1..Len(names) |->
                     [name |-> names[i], kind |-> "POSITIONAL_OR_KEYWORD", annotation |-> "Tensor"]],
   return_annotation |-> return_annotation(sig)]

\* ------------------------------------------------------------------ errors
\* raise_error(summary, details): a TripyException; the f-string fields are kept
\* as record fields.
MissingArgument(name, names) ==
  [exception |-> "TripyException", summary |-> "Missing argument", name |-> name,
   expected_arguments |-> names]

ExtraArgument(keys, names, positional) ==
  [exception |-> "TripyException", summary |-> "Extra keyword arguments", names |-> keys,
   expected_arguments |-> names, already_positional |-> positional]

ArityMismatch(expected, got, names) ==
  [exception |-> "TripyException", summary |-> "Incorrect number of arguments.",
   expected |-> expected, got |-> got, expected_arguments |-> names]

UnexpectedDtype(arg_name, dtype, tensor) ==
  [exception |-> "TripyException", summary |-> "Unexpected tensor data type.",
   param |-> arg_name, expected_dtype |-> dtype, actual_dtype |-> tensor.dtype,
   argument |-> tensor]

\* i is Python's 0-based dimension index.
ShapeOutOfBounds(arg_name, i, expected_bounds, tensor) ==
  [exception |-> "TripyException", summary |-> "Unexpected tensor shape.",
   param |-> arg_name,
   min_shape |-> [d \in 1..Len(expected_bounds) |-> expected_bounds[d][1]],
   max_shape |-> [d \in 1..Len(expected_bounds) |-> expected_bounds[d][2]],
   shape |-> tensor.shape, dim |-> i, actual |-> tensor.shape[i + 1],
   bounds |-> expected_bounds[i + 1], argument |-> tensor]

\* raise_error(str(err)): the backend text as the summary, no details.
StrideError(err) ==
  [exception |-> "TripyException", message |-> err.msg, details |-> <<>>]

\* expected_bounds[i] with i past the end of the bound list.
IndexError == [exception |-> "IndexError"]

\* ----------------------------------------------------------------- binding
\* Python's s[start:] (0-based start, empty when start >= len(s)).
SliceFrom(s, start) ==
  IF start >= Len(s) THEN <<>> ELSE [i \in 1..(Len(s) - start) |-> s[i + start]]

\* Python's s[:stop].
SliceTo(s, stop) == [i \in 1..MinOf(stop, Len(s)) |-> s[i]]

\* dict operations on the keyword arguments.
KwKeys(kw) == [i \in 1..Len(kw) |-> kw[i].name]

KwHas(kw, name) == \E i \in 1..Len(kw) : kw[i].name = name

KwGet(kw, name) == kw[CHOOSE i \in 1..Len(kw) : kw[i].name = name].value

KwDel(kw, name) == SelectSeq(kw, LAMBDA e : e.name # name)

\* NumArgs with the keyword arguments left out of the count.
NumArgsPositionalOnly(args, kw) == Len(args)

\* NUM_ARGS = num_positional + len(kwargs)
NumArgs(args, kw) == Len(args) + Len(kw)

RECURSIVE BindKwargsNoDel(_, _, _)
\* BindKwargs without `del kwargs[name]`: consumed keywords stay in the dict.
BindKwargsNoDel(expected_kwargs, kw, input_tensors) ==
  IF expected_kwargs = <<>>
  THEN [missing |-> NoName, kwargs |-> kw, input_tensors |-> input_tensors]
  ELSE LET name == Head(expected_kwargs)
       IN IF ~KwHas(kw, name)
          THEN [missing |-> name, kwargs |-> kw, input_tensors |-> input_tensors]
          ELSE BindKwargsNoDel(Tail(expected_kwargs), kw,
                               Append(input_tensors, KwGet(kw, name)))

RECURSIVE BindKwargsKwOrder(_, _, _)
\* BindKwargs appending the keyword values in the caller's keyword order
\* instead of looking each declared name up.
BindKwargsKwOrder(expected_kwargs, kw, input_tensors) ==
  IF expected_kwargs = <<>>
  THEN [missing |-> NoName, kwargs |-> kw, input_tensors |-> input_tensors]
  ELSE LET name == Head(expected_kwargs)
       IN IF ~KwHas(kw, name)
          THEN [missing |-> name, kwargs |-> kw, input_tensors |-> input_tensors]
          ELSE BindKwargsKwOrder(Tail(expected_kwargs), Tail(kw),
                                 Append(input_tensors, Head(kw).value))

\* for name in expected_kwargs: raise on a name not in kwargs, else append
\* kwargs[name] to input_tensors and del kwargs[name].
RECURSIVE BindKwargs(_, _, _)
BindKwargs(expected_kwargs, kw, input_tensors) ==
  IF expected_kwargs = <<>>
  THEN [missing |-> NoName, kwargs |-> kw, input_tensors |-> input_tensors]
  ELSE LET name == Head(expected_kwargs)
       IN IF ~KwHas(kw, name)
          THEN [missing |-> name, kwargs |-> kw, input_tensors |-> input_tensors]
          ELSE BindKwargs(Tail(expected_kwargs), KwDel(kw, name),
                          Append(input_tensors, KwGet(kw, name)))

\* BindCall with the argument-count check moved before the keyword checks.
BindCallArityFirst(names, num_expected_args, args, kw) ==
  LET num_positional == Len(args)
      NUM_ARGS == Len(args) + Len(kw)
      bound == BindKwargs(SliceFrom(names, num_positional), kw, args)
      error == IF NUM_ARGS # num_expected_args
               THEN ArityMismatch(num_expected_args, NUM_ARGS, names)
               ELSE IF bound.missing # NoName
               THEN MissingArgument(bound.missing, names)
               ELSE IF bound.kwargs # <<>>
               THEN ExtraArgument(KwKeys(bound.kwargs), names, SliceTo(names, num_positional))
               ELSE NoError
  IN [error |-> error, input_tensors |-> bound.input_tensors, kwargs |-> bound.kwargs]

\* The binding part of __call__: the error it raises (NoError if none), the
\* bound input list and what is left of kwargs.
BindCall(names, num_expected_args, args, kw) ==
  LET num_positional == Len(args)
      NUM_ARGS == NumArgs(args, kw)
      bound == BindKwargs(SliceFrom(names, num_positional), kw, args)
      error == IF bound.missing # NoName
               THEN MissingArgument(bound.missing, names)
               ELSE IF bound.kwargs # <<>>
               THEN ExtraArgument(KwKeys(bound.kwargs), names, SliceTo(names, num_positional))
               ELSE IF NUM_ARGS # num_expected_args
               THEN ArityMismatch(num_expected_args, NUM_ARGS, names)
               ELSE NoError
  IN [error |-> error, input_tensors |-> bound.input_tensors, kwargs |-> bound.kwargs]

\* -------------------------------------------------------------- translation
RECURSIVE LastDtypeMismatch(_, _, _, _)
\* FirstDtypeMismatch that keeps scanning and reports the last mismatch.
LastDtypeMismatch(input_tensors, expected_input_dtypes, names, j) ==
  IF j > MinOf(Len(input_tensors), MinOf(Len(expected_input_dtypes), Len(names)))
  THEN 0
  ELSE LET later == LastDtypeMismatch(input_tensors, expected_input_dtypes, names, j + 1)
       IN IF later # 0 THEN later
          ELSE IF input_tensors[j].dtype # expected_input_dtypes[j] THEN j ELSE 0

\* for tensor, dtype, arg_name in zip(input_tensors, expected_input_dtypes,
\* self._arg_names): the first position j (1-based, from j on) whose tensor
\* dtype differs from the expected one, 0 if there is none.
RECURSIVE FirstDtypeMismatch(_, _, _, _)
FirstDtypeMismatch(input_tensors, expected_input_dtypes, names, j) ==
  IF j > MinOf(Len(input_tensors), MinOf(Len(expected_input_dtypes), Len(names)))
  THEN 0
  ELSE IF input_tensors[j].dtype # expected_input_dtypes[j]
       THEN j
       ELSE FirstDtypeMismatch(input_tensors, expected_input_dtypes, names, j + 1)

\* The nested loops of the shape branch from tensor j (1-based), dimension i
\* (0-based) on: the exception they raise, NoError when they run to the end.
RECURSIVE ShapeScan(_, _, _, _, _)
ShapeScan(input_tensors, expected_input_shapes, names, j, i) ==
  IF j > MinOf(Len(input_tensors), MinOf(Len(expected_input_shapes), Len(names)))
  THEN NoError
  ELSE LET tensor == input_tensors[j]
           shape == tensor.shape
           expected_bounds == expected_input_shapes[j]
       IN IF i >= Len(shape)
          THEN ShapeScan(input_tensors, expected_input_shapes, names, j + 1, 0)
          ELSE IF i >= Len(expected_bounds)
          THEN IndexError
          ELSE IF shape[i + 1] < expected_bounds[i + 1][1] \/ shape[i + 1] > expected_bounds[i + 1][2]
          THEN ShapeOutOfBounds(names[j], i, expected_bounds, tensor)
          ELSE ShapeScan(input_tensors, expected_input_shapes, names, j, i + 1)

\* Reraise that wraps the backend text in a new error instead of re-raising.
ReraiseWrapped(e) == StrideError(e)

\* The bare `raise` that ends the except block: the backend exception itself.
Reraise(e) == e

\* TranslateError with the stride phrase sent into the shape branch.
TranslateErrorStrideAsShape(e, tensors, sig, names) ==
  IF DTYPE_PHRASE \in e.msg
  THEN LET input_info == get_input_info(sig)
           expected_input_dtypes == [i \in 1..Len(input_info) |-> input_info[i].dtype]
           j == FirstDtypeMismatch(tensors, expected_input_dtypes, names, 1)
       IN IF j # 0
          THEN UnexpectedDtype(names[j], expected_input_dtypes[j], tensors[j])
          ELSE Reraise(e)
  ELSE IF SET_SHAPE_PHRASE \in e.msg \/ SHAPE_MISMATCH_PHRASE \in e.msg \/ STRIDE_PHRASE \in e.msg
  THEN LET input_info == get_input_info(sig)
           expected_input_shapes == [i \in 1..Len(input_info) |-> input_info[i].shape_bounds]
           raised == ShapeScan(tensors, expected_input_shapes, names, 1, 0)
       IN IF raised # NoError THEN raised ELSE Reraise(e)
  ELSE Reraise(e)

\* TranslateError with `if` in place of `elif`: a branch that raises nothing
\* falls into the next one.
TranslateErrorFallsThrough(e, tensors, sig, names) ==
  LET input_info == get_input_info(sig)
      expected_input_dtypes == [i \in 1..Len(input_info) |-> input_info[i].dtype]
      expected_input_shapes == [i \in 1..Len(input_info) |-> input_info[i].shape_bounds]
      j == IF DTYPE_PHRASE \in e.msg
           THEN FirstDtypeMismatch(tensors, expected_input_dtypes, names, 1)
           ELSE 0
      raised == IF SET_SHAPE_PHRASE \in e.msg \/ SHAPE_MISMATCH_PHRASE \in e.msg
                THEN ShapeScan(tensors, expected_input_shapes, names, 1, 0)
                ELSE NoError
  IN IF j # 0 THEN UnexpectedDtype(names[j], expected_input_dtypes[j], tensors[j])
     ELSE IF raised # NoError THEN raised
     ELSE IF STRIDE_PHRASE \in e.msg THEN StrideError(e)
     ELSE Reraise(e)

\* The except block of __call__: the exception that leaves it.
TranslateError(e, tensors, sig, names) ==
  IF DTYPE_PHRASE \in e.msg
  THEN LET input_info == get_input_info(sig)
           expected_input_dtypes == [i \in 1..Len(input_info) |-> input_info[i].dtype]
           j == FirstDtypeMismatch(tensors, expected_input_dtypes, names, 1)
       IN IF j # 0
          THEN UnexpectedDtype(names[j], expected_input_dtypes[j], tensors[j])
          ELSE Reraise(e)
  ELSE IF SET_SHAPE_PHRASE \in e.msg \/ SHAPE_MISMATCH_PHRASE \in e.msg
  THEN LET input_info == get_input_info(sig)
           expected_input_shapes == [i \in 1..Len(input_info) |-> input_info[i].shape_bounds]
           raised == ShapeScan(tensors, expected_input_shapes, names, 1, 0)
       IN IF raised # NoError THEN raised ELSE Reraise(e)
  ELSE IF STRIDE_PHRASE \in e.msg
  THEN StrideError(e)
  ELSE Reraise(e)

\* -------------------------------------------------------------------- wrap
\* Tensor.fast_init(output)
fast_init(output) == [type |-> "Tensor", trace_tensor |-> output]

\* Wrap without the single-output case: always the list.
WrapAlwaysList(outputs) ==
  [type |-> "list", items |-> [i \in 1..Len(outputs) |-> fast_init(outputs[i])]]

\* The value __call__ returns for the executor's outputs: the single wrapped
\* tensor, or the list of wrapped tensors.
Wrap(executor_outputs) ==
  LET output_tensors == [i \in 1..Len(executor_outputs) |-> fast_init(executor_outputs[i])]
  IN IF Len(output_tensors) = 1
     THEN output_tensors[1]
     ELSE [type |-> "list", items |-> output_tensors]

\* Executor.execute on success: one raw memref per output of "main", on the
\* device assigned to that output.
ExecutorOutputs(sig, devices) ==
  [i \in 1..get_num_output_args(sig) |->
     [memref |-> i, device |-> IF i <= Len(devices) THEN devices[i] ELSE "gpu"]]

\* ----------------------------------------------------------- serialization
\* Bytes are numbers in 0..255; text is a sequence of ASCII code points.
\* The artifact's byte form: the two argument counts, then per argument its
\* dtype code, rank, dimensions (-1 written as 255), number of bounds, the
\* minima and the maxima.
DtypeCode(dt) == CASE dt = "f32" -> 1 [] dt = "i32" -> 2

CodeDtype(c) == IF c = 1 THEN "f32" ELSE "i32"

DimByte(d) == IF d = -1 THEN 255 ELSE d

ByteDim(b) == IF b = 255 THEN -1 ELSE b

SerializeArg(arg) ==
  <<DtypeCode(arg.dtype), Len(arg.shape)>>
    \o [d \in 1..Len(arg.shape) |-> DimByte(arg.shape[d])]
    \o <<Len(arg.min)>> \o arg.min \o arg.max

RECURSIVE SerializeArgs(_)
SerializeArgs(args) ==
  IF args = <<>> THEN <<>> ELSE SerializeArg(Head(args)) \o SerializeArgs(Tail(args))

\* executable.serialize()
serialize(exe) ==
  <<get_num_input_args(exe.main), get_num_output_args(exe.main)>> \o SerializeArgs(exe.main.args)

\* The argument starting at byte `at`, and where the next one starts.
ParseArg(bytes, at) ==
  LET rank == bytes[at + 1]
      nb == bytes[at + 2 + rank]
  IN [arg |-> SigArg(CodeDtype(bytes[at]),
                     [d \in 1..rank |-> ByteDim(bytes[at + 1 + d])],
                     [d \in 1..nb |-> bytes[at + 2 + rank + d]],
                     [d \in 1..nb |-> bytes[at + 2 + rank + nb + d]]),
      next |-> at + 3 + rank + 2 * nb]

RECURSIVE ParseArgs(_, _, _)
ParseArgs(bytes, at, n) ==
  IF n = 0 THEN <<>>
  ELSE LET p == ParseArg(bytes, at) IN <<p.arg>> \o ParseArgs(bytes, p.next, n - 1)

\* runtime.Executable(executable_bytes)
RuntimeExecutableFromBytes(bytes) ==
  RuntimeExecutable([args |-> ParseArgs(bytes, 3, bytes[1] + bytes[2]),
                     num_input_args |-> bytes[1],
                     num_output_args |-> bytes[2]])

\* The base64 alphabet: A-Z, a-z, 0-9, + and /, as ASCII code points.
B64Char(i) ==
  IF i < 26 THEN 65 + i
  ELSE IF i < 52 THEN 97 + (i - 26)
  ELSE IF i < 62 THEN 48 + (i - 52)
  ELSE IF i = 62 THEN 43 ELSE 47

B64Index(c) ==
  IF c >= 65 /\ c <= 90 THEN c - 65
  ELSE IF c >= 97 /\ c <= 122 THEN c - 97 + 26
  ELSE IF c >= 48 /\ c <= 57 THEN c - 48 + 52
  ELSE IF c = 43 THEN 62 ELSE 63

\* "=", the padding character
PadChar == 61

\* base64.b64encode(bytes): three bytes become four characters, a last group
\* of one or two bytes is padded.
RECURSIVE b64encode(_)
b64encode(b) ==
  IF Len(b) = 0 THEN <<>>
  ELSE IF Len(b) = 1
    THEN <<B64Char(b[1] \div 4), B64Char((b[1] % 4) * 16), PadChar, PadChar>>
  ELSE IF Len(b) = 2
    THEN <<B64Char(b[1] \div 4), B64Char((b[1] % 4) * 16 + (b[2] \div 16)),
           B64Char((b[2] % 16) * 4), PadChar>>
  ELSE <<B64Char(b[1] \div 4), B64Char((b[1] % 4) * 16 + (b[2] \div 16)),
         B64Char((b[2] % 16) * 4 + (b[3] \div 64)), B64Char(b[3] % 64)>>
         \o b64encode(SubSeq(b, 4, Len(b)))

\* base64.b64decode(text)
RECURSIVE b64decode(_)
b64decode(t) ==
  IF Len(t) < 4 THEN <<>>
  ELSE LET i1 == B64Index(t[1])
           i2 == B64Index(t[2])
           i3 == B64Index(t[3])
           i4 == B64Index(t[4])
           rest == b64decode(SubSeq(t, 5, Len(t)))
       IN IF t[3] = PadChar THEN <<i1 * 4 + (i2 \div 16)>>
          ELSE IF t[4] = PadChar
            THEN <<i1 * 4 + (i2 \div 16), (i2 % 16) * 16 + (i3 \div 4)>>
          ELSE <<i1 * 4 + (i2 \div 16), (i2 % 16) * 16 + (i3 \div 4), (i3 % 4) * 64 + i4>>
                 \o rest

\* An Executable object as __init__ leaves it.
ExecutableObject(exe, names, devices) ==
  [executable |-> exe,
   arg_names |-> names,
   num_expected_args |-> Len(names),
   output_devices |-> devices,
   executable_signature |-> get_signature(exe),
   signature |-> Signature(names, get_signature(exe))]

\* encode_executable writing the derived signature into the record as well.
encode_executableWithSignature(e) ==
  [arg_names |-> e.arg_names,
   output_devices |-> e.output_devices,
   executable |-> b64encode(serialize(e.executable)),
   executable_signature |-> get_signature(e.executable)]

\* encode_executable leaving the output devices out of the record.
encode_executableNoDevices(e) ==
  [arg_names |-> e.arg_names,
   output_devices |-> <<>>,
   executable |-> b64encode(serialize(e.executable))]

\* Lines 295-301: the record json_utils writes for an Executable.
encode_executable(e) ==
  [arg_names |-> e.arg_names,
   output_devices |-> e.output_devices,
   executable |-> b64encode(serialize(e.executable))]

\* Lines 304-311: the Executable json_utils rebuilds from the record.
decode_executable(executable_dict) ==
  LET executable_bytes == b64decode(executable_dict.executable)
  IN ExecutableObject(RuntimeExecutableFromBytes(executable_bytes),
                      executable_dict.arg_names,
                      executable_dict.output_devices)

\* ------------------------------------------------------------ frontend ops
MaxOpRank == 3

\* tripy.common.datatype
TripyDTypes ==
  {"float32", "float16", "bfloat16", "float8", "int4", "int8", "int32", "int64", "bool"}

\* A tensor as the operations see it.
OpTensor(dtype, shape) == [dtype |-> dtype, shape |-> shape]

OpShapes == SeqsUpTo({1, 2}, MaxOpRank)

\* The failure of the dtype gate: the function, the argument, its dtype and
\* the dtypes allowed.
DtypeNotAllowed(fn, arg_name, dtype, allowed) ==
  [exception |-> "TripyException", summary |-> "DtypeNotAllowed",
   function |-> fn, param |-> arg_name, dtype |-> dtype, allowed |-> allowed]

\* The dtype gate of a function whose "input" is constrained to T1.
DtypeGate(fn, input, T1) ==
  IF input.dtype \in T1 THEN NoError ELSE DtypeNotAllowed(fn, "input", input.dtype, T1)

\* --- unary_elementwise.py
UnaryFunctions == {"exp", "tanh", "sin", "cos", "rsqrt", "sqrt", "log", "abs"}

\* The table with float8 missing from rsqrt and sqrt.
dtype_variablesNoFloat8(fn) ==
  CASE fn = "abs" -> {"float32", "float16", "bfloat16", "int8", "int32"}
    [] OTHER -> {"float32", "float16", "bfloat16"}

\* The table with int64 admitted by abs.
dtype_variablesAbsInt64(fn) ==
  CASE fn = "abs" -> {"float32", "float16", "bfloat16", "int8", "int32", "int64"}
    [] fn \in {"rsqrt", "sqrt"} -> {"float32", "float16", "bfloat16", "float8"}
    [] OTHER -> {"float32", "float16", "bfloat16"}

\* dtype_variables["T1"] of each decorated function
dtype_variables(fn) ==
  CASE fn = "exp" -> {"float32", "float16", "bfloat16"}
    [] fn = "tanh" -> {"float32", "float16", "bfloat16"}
    [] fn = "sin" -> {"float32", "float16", "bfloat16"}
    [] fn = "cos" -> {"float32", "float16", "bfloat16"}
    [] fn = "rsqrt" -> {"float32", "float16", "bfloat16", "float8"}
    [] fn = "sqrt" -> {"float32", "float16", "bfloat16", "float8"}
    [] fn = "log" -> {"float32", "float16", "bfloat16"}
    [] fn = "abs" -> {"float32", "float16", "bfloat16", "int8", "int32"}

\* The UnaryElementwise.Kind each function builds.
Kind(fn) ==
  CASE fn = "exp" -> "EXP"
    [] fn = "tanh" -> "TANH"
    [] fn = "sin" -> "SINE"
    [] fn = "cos" -> "COSINE"
    [] fn = "rsqrt" -> "RSQRT"
    [] fn = "sqrt" -> "SQRT"
    [] fn = "log" -> "LOG"
    [] fn = "abs" -> "ABS"

\* UnaryElementwise.build([input], kind): the node and its output tensor,
\* of the input's dtype and shape.
UnaryElementwiseBuild(input, kind) ==
  [op |-> "UnaryElementwise", kind |-> kind, inputs |-> <<input>>,
   outputs |-> <<OpTensor(input.dtype, input.shape)>>]

\* abs: raise_error("Known issue with i64. ...")
KnownIssueI64 == [exception |-> "TripyException", summary |-> "Known issue with i64."]

\* The body of a unary function: the error it raises, or the node it builds.
UnaryBody(fn, input) ==
  IF fn = "abs" /\ input.dtype = "int64"
  THEN [error |-> KnownIssueI64, nodes |-> <<>>]
  ELSE [error |-> NoError, nodes |-> <<UnaryElementwiseBuild(input, Kind(fn))>>]

\* UnaryElementwise.Kind
UnaryKinds == {"EXP", "TANH", "RSQRT", "LOG", "SINE", "COSINE", "SQRT", "ABS"}

\* The dispatch table with the SINE entry pointing at CosineOp.
OpTypeSineAsCosine(kind) ==
  CASE kind = "EXP" -> "ExpOp"
    [] kind = "TANH" -> "TanhOp"
    [] kind = "RSQRT" -> "RsqrtOp"
    [] kind = "LOG" -> "LogOp"
    [] kind = "SINE" -> "CosineOp"
    [] kind = "COSINE" -> "CosineOp"
    [] kind = "SQRT" -> "SqrtOp"
    [] kind = "ABS" -> "AbsOp"

\* The dict in to_flat_ir, indexed by self.kind; a kind without an entry is a
\* KeyError.
OpType(kind) ==
  CASE kind = "EXP" -> "ExpOp"
    [] kind = "TANH" -> "TanhOp"
    [] kind = "RSQRT" -> "RsqrtOp"
    [] kind = "LOG" -> "LogOp"
    [] kind = "SINE" -> "SineOp"
    [] kind = "COSINE" -> "CosineOp"
    [] kind = "SQRT" -> "SqrtOp"
    [] kind = "ABS" -> "AbsOp"
    [] OTHER -> "KeyError"

\* OpType.build(inputs, outputs): one flat-IR operation.
FlatIRBuild(op_type, inputs, outputs) == [op |-> op_type, inputs |-> inputs, outputs |-> outputs]

\* UnaryElementwise.to_flat_ir(inputs, outputs): the operations appended.
UnaryToFlatIR(node, inputs, outputs) == <<FlatIRBuild(OpType(node.kind), inputs, outputs)>>

\* --- squeeze.py
\* dtype_variables["T1"] of squeeze
squeeze_dtype_variables ==
  {"float32", "float16", "bfloat16", "float8", "int8", "int32", "int64", "bool"}

\* The dims argument: left out, a tuple of dimensions, or a single dimension.
NoDims == [supplied |-> FALSE]

DimsTuple(t) == [supplied |-> TRUE, dims |-> t]

DimsInt(i) == [supplied |-> TRUE, dim |-> i]

\* squeeze's signature gives dims no default: leaving it out is a TypeError.
MissingDims ==
  [exception |-> "TypeError", summary |-> "missing 1 required positional argument: 'dims'"]

\* utils.utils.make_tuple(dims)
make_tuple(dims) == IF "dim" \in DOMAIN dims THEN <<dims.dim>> ELSE dims.dims

\* The shape left once the dimensions in dims (0-based) are removed, from
\* dimension i (0-based) on.
RECURSIVE SqueezeShape(_, _, _)
SqueezeShape(shape, dims, i) ==
  IF i >= Len(shape) THEN <<>>
  ELSE (IF \E k \in 1..Len(dims) : dims[k] = i THEN <<>> ELSE <<shape[i + 1]>>)
         \o SqueezeShape(shape, dims, i + 1)

\* op_utils.create_op(Squeeze, [input], dims): the node and its output.
SqueezeBuild(input, dims) ==
  [op |-> "Squeeze", dims |-> dims, inputs |-> <<input>>,
   outputs |-> <<OpTensor(input.dtype, SqueezeShape(input.shape, dims, 0))>>]

\* --- convolution.py
\* A trace tensor: the dtype and the rank are what inference fills in.
TraceTensor(dtype, rank) == [dtype |-> dtype, rank |-> rank]

\* InferRankPolicies.same_as_input(): the rank of the first input.
same_as_input(inputs) == inputs[1].rank

\* infer_dtypes reading the weights' dtype.
infer_dtypesFromWeights(inputs) == inputs[2].dtype

\* Convolution.infer_dtypes: self.outputs[0].dtype = self.inputs[0].dtype
infer_dtypes(inputs) == inputs[1].dtype

\* A Convolution node after rank and dtype inference.
ConvolutionBuild(inputs, padding, stride, groups, lhs_dilation, rhs_dilation) ==
  [op |-> "Convolution", inputs |-> inputs,
   padding |-> padding, stride |-> stride, groups |-> groups,
   lhs_dilation |-> lhs_dilation, rhs_dilation |-> rhs_dilation,
   outputs |-> <<TraceTensor(infer_dtypes(inputs), same_as_input(inputs))>>]

\* Convolution.to_flat_ir with the two dilations exchanged.
ConvolutionToFlatIRSwapped(node, inputs, outputs) ==
  <<[op |-> "ConvolutionOp", inputs |-> inputs, outputs |-> outputs,
     padding |-> node.padding, stride |-> node.stride,
     feature_group_count |-> node.groups,
     lhs_dilation |-> node.rhs_dilation, rhs_dilation |-> node.lhs_dilation]>>

\* Convolution.to_flat_ir(inputs, outputs): ConvolutionOp.build(...)
ConvolutionToFlatIR(node, inputs, outputs) ==
  <<[op |-> "ConvolutionOp", inputs |-> inputs, outputs |-> outputs,
     padding |-> node.padding, stride |-> node.stride,
     feature_group_count |-> node.groups,
     lhs_dilation |-> node.lhs_dilation, rhs_dilation |-> node.rhs_dilation]>>

\* How often the model lowers one node.
MaxLowerings == 2

\* --- constant.py
\* mlir_utils.get_mlir_dtype: the MLIR element type of a dtype.
get_mlir_dtype(dtype) ==
  CASE dtype = "float32" -> "f32"
    [] dtype = "float16" -> "f16"
    [] dtype = "bfloat16" -> "bf16"
    [] dtype = "float8" -> "f8E4M3FN"
    [] dtype = "int4" -> "i4"
    [] dtype = "int8" -> "i8"
    [] dtype = "int32" -> "i32"
    [] dtype = "int64" -> "i64"
    [] dtype = "bool" -> "i1"

\* A runtime.MemRefValue: where it lives, its shape and its elements, flat.
MemRefValue(address_space, shape, values) ==
  [kind |-> "memref", address_space |-> address_space, shape |-> shape, values |-> values]

\* A Python sequence of numbers, flat; a lone number is a sequence of one.
PySequence(values) == [kind |-> "sequence", values |-> values]

\* runtime_client.copy_to_host(device_memref, stream=None)
copy_to_host(device_memref) ==
  MemRefValue("host", device_memref.shape, device_memref.values)

\* mlir_utils.make_mlir_tensor(dtype, shape), TraceTensor.to_mlir()
make_mlir_tensor(dtype, shape) == [element_type |-> get_mlir_dtype(dtype), shape |-> shape]

\* ir.DenseElementsAttr.get(array=..., type=..., shape=...)
DenseElementsAttrFromArray(array, type, shape) ==
  [element_type |-> type, shape |-> shape, values |-> array, built_from |-> "array"]

\* mlir_utils.get_mlir_scalar_attr(out_dtype, element)
get_mlir_scalar_attr(out_dtype, element) == [type |-> get_mlir_dtype(out_dtype), value |-> element]

\* to_attrs(self.data): one scalar attribute per element, flattened.
to_attrs(out_dtype, data) ==
  [i \in 1..Len(data.values) |-> get_mlir_scalar_attr(out_dtype, data.values[i])]

\* ir.DenseElementsAttr.get(attrs=..., type=...)
DenseElementsAttrFromAttrs(attrs, type) ==
  [element_type |-> type.element_type, shape |-> type.shape,
   values |-> [i \in 1..Len(attrs) |-> attrs[i].value], built_from |-> "attrs"]

StablehloConstantOp(attr) == [op |-> "stablehlo.constant", attr |-> attr]

StablehloConvertOp(result, operand) ==
  [op |-> "stablehlo.convert", result |-> result, operand |-> operand]

\* to_mlir without the int32 detour for bool memrefs.
to_mlirNoWorkaround(data, output) ==
  IF data.kind = "memref"
  THEN LET data_memref == IF data.address_space = "device" THEN copy_to_host(data) ELSE data
       IN <<StablehloConstantOp(DenseElementsAttrFromArray(
              data_memref.values, get_mlir_dtype(output.dtype), data_memref.shape))>>
  ELSE <<StablehloConstantOp(DenseElementsAttrFromAttrs(
           to_attrs(output.dtype, data), make_mlir_tensor(output.dtype, output.shape)))>>

\* ConstantOp.to_mlir(operands), lines 42-91: the list of MLIR operations.
to_mlir(data, output) ==
  IF data.kind = "memref"
  THEN LET data_memref == IF data.address_space = "device" THEN copy_to_host(data) ELSE data
       IN IF output.dtype = "bool"
          THEN LET int_memref == MemRefValue("host", data.shape, data_memref.values)
                   attr == DenseElementsAttrFromArray(
                             int_memref.values, get_mlir_dtype("int32"), data_memref.shape)
                   cast_output == make_mlir_tensor("bool", data_memref.shape)
                   constant_op == StablehloConstantOp(attr)
               IN <<StablehloConvertOp(cast_output, constant_op)>>
          ELSE <<StablehloConstantOp(DenseElementsAttrFromArray(
                   data_memref.values, get_mlir_dtype(output.dtype), data_memref.shape))>>
  ELSE <<StablehloConstantOp(DenseElementsAttrFromAttrs(
           to_attrs(output.dtype, data), make_mlir_tensor(output.dtype, output.shape)))>>

\* --- test_stablehlo_alloc_enqueue.py
MaxDevices == 2

MaxValue == 3

\* What a buffer may hold before anything was copied into it.
Values == 0..MaxValue

\* @main multiplying its arguments.
mainMultiply(arg0, arg1) == [i \in 1..Len(arg0) |-> arg0[i] * arg1[i]]

\* ASM: @main adds its two tensor<1xf32> arguments elementwise.
main(arg0, arg1) == [i \in 1..Len(arg0) |-> arg0[i] + arg1[i]]

\* The work a stream carries: a copy of host values into a buffer, a call of
\* @main, a copy of a buffer to the host.
CopyToDevice(dst, values) == [op |-> "copy_to_device", buffer |-> dst, values |-> values]

ExecuteFunction(in_args, out_args) ==
  [op |-> "execute_function", in_args |-> in_args, out_args |-> out_args]

CopyToHost(src) == [op |-> "copy_to_host", buffer |-> src]

\* No buffer created: each of arg0, arg1, arg2 is <<>> until create_memref.
NoMemRefs == [arg0 |-> <<>>, arg1 |-> <<>>, arg2 |-> <<>>]

\* The work stablehlo_add() puts on the stream, in program order.
ProgramWork ==
  <<CopyToDevice("arg0", <<1>>), CopyToDevice("arg1", <<2>>), CopyToDevice("arg2", <<0>>),
    ExecuteFunction(<<"arg0", "arg1">>, <<"arg2">>), CopyToHost("arg2")>>

\* The buffers once the stream has run `work`.
RunWork(work, buffers) ==
  IF work.op = "copy_to_device"
  THEN [buffers EXCEPT ![work.buffer] = work.values]
  ELSE IF work.op = "execute_function"
  THEN [buffers EXCEPT ![work.out_args[1]] =
          main(buffers[work.in_args[1]], buffers[work.in_args[2]])]
  ELSE buffers

\* ------------------------------------------------------------------- state
VARIABLES
  executable,            \* self._executable: the compiled artifact
  arg_names,             \* self._arg_names
  num_expected_args,     \* self._num_expected_args
  output_devices,        \* self._output_devices
  executable_signature,  \* self._executable_signature
  signature,             \* self.__signature__
  call,                  \* the invocation as the caller wrote it: [args, kwargs]
  kwargs,                \* __call__'s kwargs dict
  input_tensors,         \* __call__'s input_tensors list
  evaluated,             \* ids of the tensors eval() has been called on, in order
  executions,            \* the calls of Executor.execute made so far
  err,                   \* the backend exception caught, NoError if none
  executor_outputs,      \* what Executor.execute returned
  result,                \* how __call__ ended
  pc,                    \* where __call__ is
  stream,                \* self._executor.stream
  file,                  \* the record save() wrote, NoFile before any save
  loaded,                \* the Executable load() built from the record, <<>> before
  op_call,               \* the operation requested of the frontend or the lowering
  trace,                 \* the trace operations built so far
  op_result,             \* how the requested operation ended
  flat_ir,               \* the flat-IR operations the lowering has built
  client_devices,        \* client.get_devices() of the add test
  test_pc,               \* where stablehlo_add() is
  stream_queue,          \* the work enqueued on the stream and not yet run
  memrefs,               \* the buffers of the add test, by name
  host_data,             \* `data`, the host array the add test prints
  second                 \* the locals of a second invocation of __call__ under way

selfVars == <<executable, arg_names, num_expected_args, output_devices,
              executable_signature, signature>>

callVars == <<call, kwargs, input_tensors, evaluated, executions, err,
              executor_outputs, result, pc, second>>

\* The locals of the first invocation.
firstVars == <<call, kwargs, input_tensors, evaluated, err, executor_outputs, result, pc>>

lifeVars == <<stream, file, loaded>>

opsVars == <<op_call, trace, op_result, flat_ir>>

rtVars == <<client_devices, test_pc, stream_queue, memrefs, host_data>>

restVars == <<stream, file, loaded, op_call, trace, op_result, flat_ir,
              client_devices, test_pc, stream_queue, memrefs, host_data, second>>

vars == <<executable, arg_names, num_expected_args, output_devices,
          executable_signature, signature, call, kwargs, input_tensors,
          evaluated, executions, err, executor_outputs, result, pc,
          stream, file, loaded, op_call, trace, op_result, flat_ir,
          client_devices, test_pc, stream_queue, memrefs, host_data, second>>

Pending == [status |-> "pending"]

Raised(e) == [status |-> "raised", error |-> e]

Returned(v) == [status |-> "returned", value |-> v]

\* Executable.__init__(executable, arg_names, output_devices)
Construct(exe, names, devices) ==
  /\ executable = exe
  /\ arg_names = names
  /\ num_expected_args = Len(names)
  /\ output_devices = devices
  /\ executable_signature = get_signature(exe)
  /\ signature = Signature(names, get_signature(exe))

\* A caller enters __call__(*args, **kwargs).
Enter(args, kw) ==
  /\ call = [args |-> args, kwargs |-> kw]
  /\ kwargs = kw
  /\ input_tensors = <<>>
  /\ evaluated = <<>>
  /\ executions = <<>>
  /\ err = NoError
  /\ executor_outputs = <<>>
  /\ result = Pending
  /\ pc = "bind"

\* No second invocation.
SecondIdle == second = [pc |-> "idle"]

\* A second caller enters __call__(*args, **kwargs) with locals of its own.
SecondEnter(args, kw) ==
  second = [call |-> [args |-> args, kwargs |-> kw],
            kwargs |-> kw,
            input_tensors |-> <<>>,
            evaluated |-> <<>>,
            err |-> NoError,
            executor_outputs |-> <<>>,
            result |-> Pending,
            pc |-> "bind"]

Devices(n) == [i \in 1..n |-> "gpu"]

\* Executor.__init__ leaves the default stream in place.
DefaultStream == "default"

Streams == {DefaultStream, "stream1"}

\* Nothing saved and nothing loaded yet, the executor on its default stream.
LifeIdle ==
  /\ stream = DefaultStream
  /\ file = <<>>
  /\ loaded = <<>>

\* No operation requested of the frontend.
OpsIdle ==
  /\ op_call = [fn |-> "none"]
  /\ trace = <<>>
  /\ op_result = Pending
  /\ flat_ir = <<>>

\* The add test is not running.
RuntimeIdle ==
  /\ client_devices = <<>>
  /\ test_pc = "idle"
  /\ stream_queue = <<>>
  /\ memrefs = NoMemRefs
  /\ host_data = <<>>

\* self, as the encoder reads it
Self == [executable |-> executable, arg_names |-> arg_names, output_devices |-> output_devices]

\* --- the binding universe: every declared name order up to MaxArgs, every
\* split of up to MaxArgs + 1 positional and up to MaxArgs + 1 keyword
\* arguments (declared and unknown names, any keyword order); scalar float32
\* tensors, told apart by their ids.
\* Declared names are distinct: inspect.Signature in __init__ rejects a
\* repeated parameter name, and **kwargs cannot repeat a key.
ScalarArg == StaticArg("f32", <<>>)

BindExecutables ==
  {[names |-> names,
    exe |-> RuntimeExecutable(FunctionSignature([i \in 1..Len(names) |-> ScalarArg],
                                                [i \in 1..n |-> ScalarArg])),
    devices |-> Devices(n)] : names \in InjSeqs(DeclNames, MaxArgs), n \in 0..MaxOutputs}

BindCalls ==
  {[args |-> [i \in 1..p |-> Tensor(i, "float32", <<>>)],
    kwargs |-> [i \in 1..Len(kn) |-> [name |-> kn[i], value |-> Tensor(p + i, "float32", <<>>)]]]
     : p \in 0..(MaxArgs + 1), kn \in InjSeqs(KwNames, MaxArgs + 1)}

\* --- the translation universe: the executables declaring (a) and (a, b) with
\* one output, called positionally with tensors of every dtype and of every
\* shape of rank <= MaxRank over the sizes 1 and MaxDim. A static argument has
\* size MaxDim in every dimension, a dynamic one the window (1, MaxDim - 1).
Shapes == SeqsUpTo({1, MaxDim}, MaxRank)

TranslateSigArgs(dtypes) ==
  {StaticArg(dt, [d \in 1..r |-> MaxDim]) : dt \in dtypes, r \in 0..MaxRank}
    \cup {DynamicArg(dt, [d \in 1..r |-> 1], [d \in 1..r |-> MaxDim - 1])
            : dt \in dtypes, r \in 1..MaxRank}

TranslateExecutables ==
  {[names |-> <<"a">>,
    exe |-> RuntimeExecutable(FunctionSignature(<<x>>, <<ScalarArg>>)),
    devices |-> Devices(1)] : x \in TranslateSigArgs(RuntimeDTypes)}
    \cup {[names |-> <<"a", "b">>,
           exe |-> RuntimeExecutable(FunctionSignature(<<x, y>>, <<ScalarArg>>)),
           devices |-> Devices(1)] : x, y \in TranslateSigArgs({"f32"})}

TranslateCalls(k) ==
  {[args |-> [i \in 1..k |-> Tensor(i, dt[i], sh[i])], kwargs |-> <<>>]
     : dt \in [1..k -> DTypes], sh \in [1..k -> Shapes]}

InitBind ==
  \E e \in BindExecutables, c \in BindCalls :
    /\ Construct(e.exe, e.names, e.devices)
    /\ Enter(c.args, c.kwargs)

InitTranslate ==
  \E e \in TranslateExecutables :
    \E c \in TranslateCalls(Len(e.names)) :
      /\ Construct(e.exe, e.names, e.devices)
      /\ Enter(c.args, c.kwargs)

Init == (InitBind \/ InitTranslate) /\ SecondIdle /\ LifeIdle /\ OpsIdle /\ RuntimeIdle

\* --- the lifecycle universe: executables of up to MaxArgs inputs, every
\* mix of static and dynamic float32 arguments and every single int32
\* argument, 0..MaxOutputs outputs; the call
\* passes one scalar float32 tensor per declared name.
LifeExecutables ==
  {[names |-> SubSeq(AllNames, 1, Len(ins)),
    exe |-> RuntimeExecutable(FunctionSignature(ins, [i \in 1..n |-> ScalarArg])),
    devices |-> Devices(n)]
     : ins \in SeqsUpTo(TranslateSigArgs({"f32"}), MaxArgs)
                \cup [1..1 -> TranslateSigArgs(RuntimeDTypes)],
       n \in 0..MaxOutputs}

InitLife ==
  /\ \E e \in LifeExecutables :
       /\ Construct(e.exe, e.names, e.devices)
       /\ Enter([i \in 1..Len(e.names) |-> Tensor(i, "float32", <<>>)], <<>>)
  /\ SecondIdle
  /\ LifeIdle
  /\ OpsIdle
  /\ RuntimeIdle

\* No Executable call is under way in the operation and runtime specifications.
ExecutableIdle ==
  /\ Construct(RuntimeExecutable(FunctionSignature(<<>>, <<>>)), <<>>, <<>>)
  /\ Enter(<<>>, <<>>)

\* --- the operation universe
UnaryCalls ==
  {[fn |-> fn, input |-> OpTensor(dt, sh)] : fn \in UnaryFunctions, dt \in TripyDTypes, sh \in OpShapes}

\* The strictly increasing tuples of singleton dimensions of a shape.
SingletonTuples(shape) ==
  {t \in SeqsUpTo(0..(Len(shape) - 1), Len(shape)) :
     /\ \A k \in 1..Len(t) : shape[t[k] + 1] = 1
     /\ \A k \in 1..(Len(t) - 1) : t[k] < t[k + 1]}

\* squeeze of any tensor, with dims left out, a tuple of singleton dimensions
\* or one singleton dimension.
SqueezeCalls ==
  {[fn |-> "squeeze", input |-> OpTensor(dt, sh), dims |-> dims]
     : dt \in TripyDTypes, sh \in OpShapes, dims \in {NoDims}}
  \cup UNION {{[fn |-> "squeeze", input |-> OpTensor(dt, sh), dims |-> DimsTuple(t)]
                 : dt \in TripyDTypes, t \in SingletonTuples(sh)} : sh \in OpShapes}
  \cup UNION {{[fn |-> "squeeze", input |-> OpTensor(dt, sh), dims |-> DimsInt(i)]
                 : dt \in TripyDTypes, i \in {j \in 0..(Len(sh) - 1) : sh[j + 1] = 1}}
                : sh \in OpShapes}

ConvDTypes == {"float32", "float16", "int8"}

\* A Convolution over an input and weights of any rank up to MaxOpRank and any
\* of three dtypes each, with two values for every attribute.
ConvolutionCalls ==
  {[fn |-> "Convolution",
    inputs |-> <<TraceTensor(dt0, r0), TraceTensor(dt1, r1)>>,
    padding |-> <<<<p, p>>>>, stride |-> <<st>>, groups |-> g,
    lhs_dilation |-> <<ld>>, rhs_dilation |-> <<rd>>]
     : dt0 \in ConvDTypes, r0 \in 0..MaxOpRank, dt1 \in ConvDTypes, r1 \in 0..MaxOpRank,
       p \in {0, 1}, st \in {1, 2}, g \in {1, 2}, ld \in {1, 2}, rd \in {1, 2}}

\* The constants: shapes (), (1,) and (2,), elements 0 and 1.
ConstantShapes == {<<>>, <<1>>, <<2>>}

NumElements(shape) == IF shape = <<>> THEN 1 ELSE shape[1]

\* ConstantOp.to_mlir on a host memref, a device memref or a Python sequence,
\* for every output dtype.
ConstantCalls ==
  UNION {{[fn |-> "ConstantOp.to_mlir", data |-> data, output |-> OpTensor(dt, sh)]
            : dt \in TripyDTypes,
              data \in {MemRefValue(sp, sh, v) : sp \in {"host", "device"},
                                                v \in [1..NumElements(sh) -> {0, 1}]}
                         \cup {PySequence(v) : v \in [1..NumElements(sh) -> {0, 1}]}}
           : sh \in ConstantShapes}

OpCalls == UnaryCalls \cup SqueezeCalls \cup ConvolutionCalls \cup ConstantCalls

InitOps ==
  /\ op_call \in OpCalls
  /\ trace = <<>>
  /\ op_result = Pending
  /\ flat_ir = <<>>
  /\ ExecutableIdle
  /\ SecondIdle
  /\ LifeIdle
  /\ RuntimeIdle

\* --- the add test on a machine with 0..MaxDevices devices
InitAdd ==
  /\ \E n \in 0..MaxDevices : client_devices = [i \in 1..n |-> i - 1]
  /\ test_pc = "get_devices"
  /\ stream_queue = <<>>
  /\ memrefs = NoMemRefs
  /\ host_data = <<>>
  /\ ExecutableIdle
  /\ SecondIdle
  /\ LifeIdle
  /\ OpsIdle

\* --- two invocations of one Executable (a, b) under way at once: a static
\* float32 (MaxDim,), b float32 with one dimension in 1..MaxDim - 1, one or two
\* outputs. Each caller passes one of: both in bounds, both out of bounds, a
\* of the wrong dtype, b by keyword, b missing, a surplus keyword c.
TwoExecutables ==
  {[names |-> <<"a", "b">>,
    exe |-> RuntimeExecutable(FunctionSignature(
              <<StaticArg("f32", <<MaxDim>>), DynamicArg("f32", <<1>>, <<MaxDim - 1>>)>>,
              [i \in 1..n |-> ScalarArg])),
    devices |-> Devices(n)] : n \in {1, 2}}

TwoCalls(id) ==
  {[args |-> <<Tensor(id, "float32", <<MaxDim>>), Tensor(id + 1, "float32", <<1>>)>>,
    kwargs |-> <<>>],
   [args |-> <<Tensor(id, "float32", <<1>>), Tensor(id + 1, "float32", <<MaxDim>>)>>,
    kwargs |-> <<>>],
   [args |-> <<Tensor(id, "int32", <<MaxDim>>), Tensor(id + 1, "float32", <<1>>)>>,
    kwargs |-> <<>>],
   [args |-> <<Tensor(id, "float32", <<MaxDim>>)>>,
    kwargs |-> <<[name |-> "b", value |-> Tensor(id + 1, "float32", <<1>>)]>>],
   [args |-> <<Tensor(id, "float32", <<MaxDim>>)>>,
    kwargs |-> <<>>],
   [args |-> <<Tensor(id, "float32", <<MaxDim>>), Tensor(id + 1, "float32", <<1>>)>>,
    kwargs |-> <<[name |-> "c", value |-> Tensor(id + 2, "float32", <<1>>)]>>]}

InitTwo ==
  /\ \E e \in TwoExecutables : Construct(e.exe, e.names, e.devices)
  /\ \E c \in TwoCalls(1) : Enter(c.args, c.kwargs)
  /\ \E c \in TwoCalls(4) : SecondEnter(c.args, c.kwargs)
  /\ LifeIdle
  /\ OpsIdle
  /\ RuntimeIdle

\* ----------------------------------------------------------------- actions
\* Bind with the eval() loop run on the positional arguments before the checks.
BindEvalFirst ==
  /\ pc = "bind"
  /\ LET b == BindCall(arg_names, num_expected_args, call.args, kwargs)
     IN /\ input_tensors' = b.input_tensors
        /\ kwargs' = b.kwargs
        /\ IF b.error # NoError
           THEN result' = Raised(b.error) /\ pc' = "done"
           ELSE result' = result /\ pc' = "materialize"
  /\ evaluated' = [i \in 1..Len(call.args) |-> call.args[i].id]
  /\ UNCHANGED <<call, executions, err, executor_outputs>>
  /\ UNCHANGED selfVars
  /\ UNCHANGED restVars

\* Lines 155-186: bind the arguments, or raise a binding error.
Bind ==
  /\ pc = "bind"
  /\ LET b == BindCall(arg_names, num_expected_args, call.args, kwargs)
     IN /\ input_tensors' = b.input_tensors
        /\ kwargs' = b.kwargs
        /\ IF b.error # NoError
           THEN result' = Raised(b.error) /\ pc' = "done"
           ELSE result' = result /\ pc' = "materialize"
  /\ UNCHANGED <<call, evaluated, executions, err, executor_outputs>>
  /\ UNCHANGED selfVars
  /\ UNCHANGED restVars

\* The eval() loop walking input_tensors from the end.
EvalReversed ==
  /\ pc = "materialize"
  /\ Len(evaluated) < Len(input_tensors)
  /\ evaluated' = Append(evaluated, input_tensors[Len(input_tensors) - Len(evaluated)].id)
  /\ UNCHANGED <<call, kwargs, input_tensors, executions, err, executor_outputs, result, pc>>
  /\ UNCHANGED selfVars
  /\ UNCHANGED restVars

\* Lines 189-190: tensor.eval() on the next bound input.
Eval ==
  /\ pc = "materialize"
  /\ Len(evaluated) < Len(input_tensors)
  /\ evaluated' = Append(evaluated, input_tensors[Len(evaluated) + 1].id)
  /\ UNCHANGED <<call, kwargs, input_tensors, executions, err, executor_outputs, result, pc>>
  /\ UNCHANGED selfVars
  /\ UNCHANGED restVars

\* Executor.execute(self._output_devices, inputs=[...]) is entered.
Invoked ==
  executions' = Append(executions, [output_devices |-> output_devices, inputs |-> input_tensors])

\* Lines 193-195: the executor returns the outputs.
ExecuteReturns ==
  /\ pc = "materialize"
  /\ Len(evaluated) = Len(input_tensors)
  /\ Invoked
  /\ executor_outputs' = ExecutorOutputs(executable_signature, output_devices)
  /\ pc' = "wrap"
  /\ UNCHANGED <<call, kwargs, input_tensors, evaluated, err, result>>
  /\ UNCHANGED selfVars
  /\ UNCHANGED restVars

\* Lines 193-196: the executor raises runtime.MTRTException.
ExecuteRaises ==
  /\ pc = "materialize"
  /\ Len(evaluated) = Len(input_tensors)
  /\ Invoked
  /\ \E msg \in Messages : err' = MTRTException(msg)
  /\ pc' = "translate"
  /\ UNCHANGED <<call, kwargs, input_tensors, evaluated, executor_outputs, result>>
  /\ UNCHANGED selfVars
  /\ UNCHANGED restVars

\* Lines 196-230: the except block.
Translate ==
  /\ pc = "translate"
  /\ result' = Raised(TranslateError(err, input_tensors, executable_signature, arg_names))
  /\ pc' = "done"
  /\ UNCHANGED <<call, kwargs, input_tensors, evaluated, executions, err, executor_outputs>>
  /\ UNCHANGED selfVars
  /\ UNCHANGED restVars

\* Lines 232-235: wrap the outputs and return.
Return ==
  /\ pc = "wrap"
  /\ result' = Returned(Wrap(executor_outputs))
  /\ pc' = "done"
  /\ UNCHANGED <<call, kwargs, input_tensors, evaluated, executions, err, executor_outputs>>
  /\ UNCHANGED selfVars
  /\ UNCHANGED restVars

\* Lines 71-73: the stream setter, between invocations.
SetStream ==
  /\ pc \in {"bind", "done"}
  /\ \E s \in Streams : stream' = s
  /\ UNCHANGED <<file, loaded>>
  /\ UNCHANGED callVars
  /\ UNCHANGED selfVars
  /\ UNCHANGED opsVars
  /\ UNCHANGED rtVars

\* Lines 260-292: save(path) writes the encoded record.
Save ==
  /\ pc \in {"bind", "done"}
  /\ file' = <<encode_executable(Self)>>
  /\ UNCHANGED <<stream, loaded>>
  /\ UNCHANGED callVars
  /\ UNCHANGED selfVars
  /\ UNCHANGED opsVars
  /\ UNCHANGED rtVars

\* Lines 82-121: load(path) decodes the record into a new Executable.
Load ==
  /\ pc \in {"bind", "done"}
  /\ file # <<>>
  /\ loaded' = <<decode_executable(file[1])>>
  /\ UNCHANGED <<stream, file>>
  /\ UNCHANGED callVars
  /\ UNCHANGED selfVars
  /\ UNCHANGED opsVars
  /\ UNCHANGED rtVars

Next == Bind \/ Eval \/ ExecuteReturns \/ ExecuteRaises \/ Translate \/ Return

Spec == Init /\ [][Next]_vars

\* A decorated unary function is called: the dtype gate, then the body.
CallUnary ==
  /\ op_call.fn \in UnaryFunctions
  /\ op_result = Pending
  /\ LET gate == DtypeGate(op_call.fn, op_call.input, dtype_variables(op_call.fn))
         body == UnaryBody(op_call.fn, op_call.input)
     IN IF gate # NoError
        THEN op_result' = Raised(gate) /\ trace' = trace
        ELSE IF body.error # NoError
        THEN op_result' = Raised(body.error) /\ trace' = trace
        ELSE /\ trace' = trace \o body.nodes
             /\ op_result' = Returned(body.nodes[1].outputs[1])
  /\ UNCHANGED <<op_call, flat_ir>>
  /\ UNCHANGED <<selfVars, callVars, lifeVars, rtVars>>

\* squeeze(input, dims) is called: the argument binding, the dtype gate, then
\* the body. With dims left out and a dtype outside T1 either failure may
\* come first.
CallSqueeze ==
  /\ op_call.fn = "squeeze"
  /\ op_result = Pending
  /\ LET gate == DtypeGate("squeeze", op_call.input, squeeze_dtype_variables)
     IN IF ~op_call.dims.supplied
        THEN /\ \E e \in (IF gate = NoError THEN {MissingDims} ELSE {MissingDims, gate}) :
                  op_result' = Raised(e)
             /\ trace' = trace
        ELSE IF gate # NoError
        THEN op_result' = Raised(gate) /\ trace' = trace
        ELSE LET node == SqueezeBuild(op_call.input, make_tuple(op_call.dims))
             IN /\ trace' = Append(trace, node)
                /\ op_result' = Returned(node.outputs[1])
  /\ UNCHANGED <<op_call, flat_ir>>
  /\ UNCHANGED <<selfVars, callVars, lifeVars, rtVars>>

\* A Convolution node is built and its output's rank and dtype inferred.
BuildConvolution ==
  /\ op_call.fn = "Convolution"
  /\ op_result = Pending
  /\ LET node == ConvolutionBuild(op_call.inputs, op_call.padding, op_call.stride,
                                  op_call.groups, op_call.lhs_dilation, op_call.rhs_dilation)
     IN /\ trace' = Append(trace, node)
        /\ op_result' = Returned(node.outputs[1])
  /\ UNCHANGED <<op_call, flat_ir>>
  /\ UNCHANGED <<selfVars, callVars, lifeVars, rtVars>>

\* A ConstantOp is lowered.
LowerConstant ==
  /\ op_call.fn = "ConstantOp.to_mlir"
  /\ op_result = Pending
  /\ op_result' = Returned(to_mlir(op_call.data, op_call.output))
  /\ UNCHANGED <<op_call, trace, flat_ir>>
  /\ UNCHANGED <<selfVars, callVars, lifeVars, rtVars>>

\* The UnaryElementwise node built is lowered (again).
LowerUnary ==
  /\ op_call.fn \in UnaryFunctions
  /\ trace # <<>>
  /\ Len(flat_ir) < MaxLowerings
  /\ flat_ir' = flat_ir \o UnaryToFlatIR(trace[1], trace[1].inputs, trace[1].outputs)
  /\ UNCHANGED <<op_call, trace, op_result>>
  /\ UNCHANGED <<selfVars, callVars, lifeVars, rtVars>>

\* The Convolution node built is lowered (again).
LowerConvolution ==
  /\ op_call.fn = "Convolution"
  /\ trace # <<>>
  /\ Len(flat_ir) < MaxLowerings
  /\ flat_ir' = flat_ir \o ConvolutionToFlatIR(trace[1], trace[1].inputs, trace[1].outputs)
  /\ UNCHANGED <<op_call, trace, op_result>>
  /\ UNCHANGED <<selfVars, callVars, lifeVars, rtVars>>

NextOps ==
  CallUnary \/ CallSqueeze \/ BuildConvolution \/ LowerConstant
    \/ LowerUnary \/ LowerConvolution

SpecOps == InitOps /\ [][NextOps]_vars

\* client.create_memref(array, device, stream) for buffer `name`: the buffer
\* exists with unspecified contents and the copy is put on the stream.
CreateMemref(name, values, next_pc) ==
  /\ \E g \in Values : memrefs' = [memrefs EXCEPT ![name] = <<g>>]
  /\ stream_queue' = Append(stream_queue, CopyToDevice(name, values))
  /\ test_pc' = next_pc
  /\ UNCHANGED <<client_devices, host_data>>
  /\ UNCHANGED <<selfVars, callVars, lifeVars, opsVars>>

\* Lines 33-38: the test returns at once when there is no device.
GetDevices ==
  /\ test_pc = "get_devices"
  /\ test_pc' = IF Len(client_devices) = 0 THEN "returned" ELSE "arg0"
  /\ UNCHANGED <<client_devices, stream_queue, memrefs, host_data>>
  /\ UNCHANGED <<selfVars, callVars, lifeVars, opsVars>>

\* Lines 43-47
CreateArg0 == test_pc = "arg0" /\ CreateMemref("arg0", <<1>>, "arg1")

\* Lines 48-52
CreateArg1 == test_pc = "arg1" /\ CreateMemref("arg1", <<2>>, "arg2")

\* Lines 54-58
CreateArg2 == test_pc = "arg2" /\ CreateMemref("arg2", <<0>>, "execute")

\* Lines 59-61: session.execute_function(...) on the stream.
EnqueueExecute ==
  /\ test_pc = "execute"
  /\ stream_queue' = Append(stream_queue, ExecuteFunction(<<"arg0", "arg1">>, <<"arg2">>))
  /\ test_pc' = "copy_to_host"
  /\ UNCHANGED <<client_devices, memrefs, host_data>>
  /\ UNCHANGED <<selfVars, callVars, lifeVars, opsVars>>

\* Line 63: copy_to_host(arg2, stream): a host buffer of unspecified contents,
\* viewed by `data`, and the copy put on the stream.
EnqueueCopyToHost ==
  /\ test_pc = "copy_to_host"
  /\ \E g \in Values : host_data' = <<g>>
  /\ stream_queue' = Append(stream_queue, CopyToHost("arg2"))
  /\ test_pc' = "sync"
  /\ UNCHANGED <<client_devices, memrefs>>
  /\ UNCHANGED <<selfVars, callVars, lifeVars, opsVars>>

\* Line 64: stream.sync() returns once the stream is empty.
StreamSync ==
  /\ test_pc = "sync"
  /\ stream_queue = <<>>
  /\ test_pc' = "print"
  /\ UNCHANGED <<client_devices, stream_queue, memrefs, host_data>>
  /\ UNCHANGED <<selfVars, callVars, lifeVars, opsVars>>

\* Line 66
PrintData ==
  /\ test_pc = "print"
  /\ test_pc' = "done"
  /\ UNCHANGED <<client_devices, stream_queue, memrefs, host_data>>
  /\ UNCHANGED <<selfVars, callVars, lifeVars, opsVars>>

\* The device runs the oldest work on the stream.
RunStream ==
  /\ stream_queue # <<>>
  /\ memrefs' = RunWork(Head(stream_queue), memrefs)
  /\ host_data' = IF Head(stream_queue).op = "copy_to_host"
                  THEN memrefs[Head(stream_queue).buffer]
                  ELSE host_data
  /\ stream_queue' = Tail(stream_queue)
  /\ UNCHANGED <<client_devices, test_pc>>
  /\ UNCHANGED <<selfVars, callVars, lifeVars, opsVars>>

NextAdd ==
  GetDevices \/ CreateArg0 \/ CreateArg1 \/ CreateArg2 \/ EnqueueExecute
    \/ EnqueueCopyToHost \/ StreamSync \/ PrintData \/ RunStream

SpecAdd == InitAdd /\ [][NextAdd]_vars

\* --- the steps of the second invocation, on its own locals
\* Bind of the second invocation reading the first invocation's kwargs dict.
SecondBindSharedKwargs ==
  /\ second.pc = "bind"
  /\ LET b == BindCall(arg_names, num_expected_args, second.call.args, kwargs)
     IN second' = [second EXCEPT
                     !.input_tensors = b.input_tensors,
                     !.kwargs = b.kwargs,
                     !.result = IF b.error # NoError THEN Raised(b.error) ELSE @,
                     !.pc = IF b.error # NoError THEN "done" ELSE "materialize"]
  /\ UNCHANGED <<firstVars, executions>>
  /\ UNCHANGED <<selfVars, lifeVars, opsVars, rtVars>>

\* Lines 155-186
SecondBind ==
  /\ second.pc = "bind"
  /\ LET b == BindCall(arg_names, num_expected_args, second.call.args, second.kwargs)
     IN second' = [second EXCEPT
                     !.input_tensors = b.input_tensors,
                     !.kwargs = b.kwargs,
                     !.result = IF b.error # NoError THEN Raised(b.error) ELSE @,
                     !.pc = IF b.error # NoError THEN "done" ELSE "materialize"]
  /\ UNCHANGED <<firstVars, executions>>
  /\ UNCHANGED <<selfVars, lifeVars, opsVars, rtVars>>

\* Lines 189-190
SecondEval ==
  /\ second.pc = "materialize"
  /\ Len(second.evaluated) < Len(second.input_tensors)
  /\ second' = [second EXCEPT
                  !.evaluated = Append(@, second.input_tensors[Len(second.evaluated) + 1].id)]
  /\ UNCHANGED <<firstVars, executions>>
  /\ UNCHANGED <<selfVars, lifeVars, opsVars, rtVars>>

\* The shared executor is entered by the second invocation.
SecondInvoked ==
  executions' = Append(executions, [output_devices |-> output_devices,
                                    inputs |-> second.input_tensors])

\* Lines 193-195
SecondExecuteReturns ==
  /\ second.pc = "materialize"
  /\ Len(second.evaluated) = Len(second.input_tensors)
  /\ SecondInvoked
  /\ second' = [second EXCEPT
                  !.executor_outputs = ExecutorOutputs(executable_signature, output_devices),
                  !.pc = "wrap"]
  /\ UNCHANGED firstVars
  /\ UNCHANGED <<selfVars, lifeVars, opsVars, rtVars>>

\* Lines 193-196
SecondExecuteRaises ==
  /\ second.pc = "materialize"
  /\ Len(second.evaluated) = Len(second.input_tensors)
  /\ SecondInvoked
  /\ \E msg \in Messages :
       second' = [second EXCEPT !.err = MTRTException(msg), !.pc = "translate"]
  /\ UNCHANGED firstVars
  /\ UNCHANGED <<selfVars, lifeVars, opsVars, rtVars>>

\* Lines 196-230
SecondTranslate ==
  /\ second.pc = "translate"
  /\ second' = [second EXCEPT
                  !.result = Raised(TranslateError(second.err, second.input_tensors,
                                                   executable_signature, arg_names)),
                  !.pc = "done"]
  /\ UNCHANGED <<firstVars, executions>>
  /\ UNCHANGED <<selfVars, lifeVars, opsVars, rtVars>>

\* Lines 232-235
SecondReturn ==
  /\ second.pc = "wrap"
  /\ second' = [second EXCEPT
                  !.result = Returned(Wrap(second.executor_outputs)),
                  !.pc = "done"]
  /\ UNCHANGED <<firstVars, executions>>
  /\ UNCHANGED <<selfVars, lifeVars, opsVars, rtVars>>

NextTwo ==
  Next \/ SecondBind \/ SecondEval \/ SecondExecuteReturns \/ SecondExecuteRaises
    \/ SecondTranslate \/ SecondReturn \/ SetStream

SpecTwo == InitTwo /\ [][NextTwo]_vars

NextLife == Next \/ SetStream \/ Save \/ Load

SpecLife == InitLife /\ [][NextLife]_vars

TypeOK ==
  /\ pc \in {"bind", "materialize", "translate", "wrap", "done"}
  /\ result.status \in {"pending", "raised", "returned"}
  /\ num_expected_args = Len(arg_names)
  /\ Len(executions) <= 1

\* ------------------------------------------------- what the caller supplied
\* Read off `call`, the invocation as written, independently of the binding code.
NumPositional == Len(call.args)

KeywordNames == {call.kwargs[i].name : i \in 1..Len(call.kwargs)}

TotalArgs == Len(call.args) + Len(call.kwargs)

\* Declared positions not covered positionally.
KeywordPositions == {i \in 1..Len(arg_names) : i > NumPositional}

\* Declared positions that have neither a positional nor a keyword value.
MissingPositions == {i \in KeywordPositions : arg_names[i] \notin KeywordNames}

KeywordValue(name) ==
  (CHOOSE e \in {call.kwargs[i] : i \in 1..Len(call.kwargs)} : e.name = name).value

\* The keyword names no declared position consumes, in the caller's order.
UnconsumedNames ==
  LET wanted == {arg_names[i] : i \in KeywordPositions}
      left == SelectSeq(call.kwargs, LAMBDA e : e.name \notin wanted)
  IN [i \in 1..Len(left) |-> left[i].name]

LeastOf(S) == CHOOSE i \in S : \A j \in S : i <= j

\* How __call__ ended, as one word.
Outcome ==
  IF result.status = "pending" THEN "Pending"
  ELSE IF result.status = "returned" THEN "Success"
  ELSE IF result.error.exception = "MTRTException" THEN "BackendFailure"
  ELSE IF result.error.exception = "IndexError" THEN "IndexError"
  ELSE IF "message" \in DOMAIN result.error THEN "BackendMessage"
  ELSE IF result.error.summary = "Missing argument" THEN "MissingArgument"
  ELSE IF result.error.summary = "Extra keyword arguments" THEN "ExtraArgument"
  ELSE IF result.error.summary = "Incorrect number of arguments." THEN "ArityMismatch"
  ELSE IF result.error.summary = "Unexpected tensor data type." THEN "UnexpectedDtype"
  ELSE IF result.error.summary = "Unexpected tensor shape." THEN "ShapeOutOfBounds"
  ELSE "Other"

BindingErrors == {"MissingArgument", "ExtraArgument", "ArityMismatch"}

\* C1: once binding has run, a call that leaves a declared name at or after
\* the positional count without a keyword fails with "Missing argument" naming
\* the first such name in declared order, whatever surplus keywords it has and
\* whatever its total argument count is.
C1_MissingArgumentNamed ==
  (pc # "bind" /\ MissingPositions # {}) =>
    /\ Outcome = "MissingArgument"
    /\ result.error.name = arg_names[LeastOf(MissingPositions)]

\* A call with two missing names and a surplus keyword was rejected.
C1_Witness ==
  /\ pc = "done"
  /\ Cardinality(MissingPositions) >= 2
  /\ UnconsumedNames # <<>>
  /\ Outcome = "MissingArgument"

\* C2: once binding has run, a call with no missing name whose keywords are
\* not all consumed fails with "Extra keyword arguments" listing exactly the
\* unconsumed keyword names (in the caller's order), and with no other error.
C2_ExtraArgumentListed ==
  (pc # "bind" /\ MissingPositions = {} /\ UnconsumedNames # <<>>) =>
    /\ Outcome = "ExtraArgument"
    /\ result.error.names = UnconsumedNames

\* Rejected with both an unknown keyword and a keyword that repeats a
\* positionally supplied name.
C2_Witness ==
  /\ pc = "done"
  /\ Outcome = "ExtraArgument"
  /\ \E i \in 1..Len(UnconsumedNames) :
       \E j \in 1..Len(arg_names) : j <= NumPositional /\ arg_names[j] = UnconsumedNames[i]
  /\ \E i \in 1..Len(UnconsumedNames) :
       \A j \in 1..Len(arg_names) : arg_names[j] # UnconsumedNames[i]

\* C3: once binding has run, "Incorrect number of arguments" (expected
\* len(arg_names), got positional + keyword count) is the outcome exactly when
\* the total count differs from the declared arity and there is neither a
\* missing name nor an unconsumed keyword; when a name-based error applies, it
\* is the one reported.
C3_ArityCheckedLast ==
  pc # "bind" =>
    /\ (Outcome = "ArityMismatch") <=>
         (TotalArgs # Len(arg_names) /\ MissingPositions = {} /\ UnconsumedNames = <<>>)
    /\ (Outcome = "ArityMismatch") =>
         (result.error.expected = Len(arg_names) /\ result.error.got = TotalArgs)
    /\ (MissingPositions # {} \/ UnconsumedNames # <<>>) =>
         Outcome \in {"MissingArgument", "ExtraArgument"}

\* Too many positional arguments and no keyword: the arity error.
C3_Witness ==
  /\ pc = "done"
  /\ Outcome = "ArityMismatch"
  /\ TotalArgs > Len(arg_names)
  /\ Len(arg_names) > 0

\* The call passes the first values positionally and exactly the remaining
\* declared names by keyword.
ConsistentMix ==
  /\ NumPositional <= Len(arg_names)
  /\ Len(call.kwargs) = Len(arg_names) - NumPositional
  /\ MissingPositions = {}

\* The value the caller gave for declared position i.
LogicalValue(i) ==
  IF i <= NumPositional THEN call.args[i] ELSE KeywordValue(arg_names[i])

LogicalValues == [i \in 1..Len(arg_names) |-> LogicalValue(i)]

\* C4: for every call that supplies the first p values positionally and the
\* others by keyword, in any keyword order, the bound input list, and the list
\* handed to the executor, is [v1..vk] in declared order.
C4_BindingOrderIndependent ==
  (pc # "bind" /\ ConsistentMix) =>
    /\ input_tensors = LogicalValues
    /\ Outcome \notin BindingErrors
    /\ \A n \in 1..Len(executions) : executions[n].inputs = LogicalValues

\* An all-keyword call whose keywords come in another order than declared
\* reached the executor.
C4_Witness ==
  /\ ConsistentMix
  /\ Len(arg_names) >= 2
  /\ NumPositional = 0
  /\ call.kwargs[1].name # arg_names[1]
  /\ Len(executions) = 1

\* C5: an Executable declaring (a, b) called with zero, one or three arguments
\* ends binding in MissingArgument, ExtraArgument or ArityMismatch; and in
\* every call that ends in a binding error no tensor was evaluated and the
\* executor was not invoked.
C5_NoPartialExecution ==
  /\ (pc # "bind" /\ arg_names = <<"a", "b">> /\ TotalArgs \in {0, 1, 3}) =>
       Outcome \in BindingErrors
  /\ Outcome \in BindingErrors => (evaluated = <<>> /\ executions = <<>>)

\* Three arguments, one positional and two keywords, rejected by (a, b).
C5_Witness ==
  /\ pc = "done"
  /\ arg_names = <<"a", "b">>
  /\ TotalArgs = 3
  /\ NumPositional = 1
  /\ Outcome \in BindingErrors
  /\ evaluated = <<>>

\* ----------------------------------------- what the compiled signature says
\* Read off the signature itself, independently of _get_arg_info.
SignatureDtype(j) == convert_runtime_dtype_to_tripy_dtype(executable_signature.args[j].dtype)

\* The (min, max) window of dimension i (0-based) of input j.
SignatureWindow(j, i) ==
  LET arg == executable_signature.args[j]
  IN IF Len(arg.min) > 0
     THEN <<arg.min[i + 1], arg.max[i + 1]>>
     ELSE <<arg.shape[i + 1], arg.shape[i + 1]>>

\* The number of per-dimension bounds the signature gives input j.
SignatureRank(j) ==
  LET arg == executable_signature.args[j]
  IN IF Len(arg.min) > 0 THEN Len(arg.min) ELSE Len(arg.shape)

BackendFailed == pc = "done" /\ err # NoError

ShapePhrase == SET_SHAPE_PHRASE \in err.msg \/ SHAPE_MISMATCH_PHRASE \in err.msg

\* Inputs whose dtype differs from the signature's.
DtypeMismatches == {j \in 1..Len(input_tensors) : input_tensors[j].dtype # SignatureDtype(j)}

\* C6: when the backend failure carries the element-type phrase and some
\* input's dtype differs from the signature's, the call fails with
\* UnexpectedDtype for the first such parameter in declared order, reporting
\* its name, the signature's dtype and the tensor's dtype.
C6_UnexpectedDtypeFirst ==
  (BackendFailed /\ DTYPE_PHRASE \in err.msg /\ DtypeMismatches # {}) =>
    LET j == LeastOf(DtypeMismatches)
    IN /\ Outcome = "UnexpectedDtype"
       /\ result.error.param = arg_names[j]
       /\ result.error.expected_dtype = SignatureDtype(j)
       /\ result.error.actual_dtype = input_tensors[j].dtype
       /\ result.error.argument = LogicalValue(j)

\* The second of two parameters is the first with a wrong dtype: float32
\* expected, int32 given.
C6_Witness ==
  /\ BackendFailed
  /\ DTYPE_PHRASE \in err.msg
  /\ Len(arg_names) = 2
  /\ DtypeMismatches = {2}
  /\ Outcome = "UnexpectedDtype"
  /\ result.error.param = "b"
  /\ result.error.expected_dtype = "float32"
  /\ result.error.actual_dtype = "int32"

\* (input, dimension) pairs whose size lies outside the signature's window.
OutOfBounds ==
  {jd \in (1..Len(input_tensors)) \X (0..(MaxRank + 1)) :
     /\ jd[2] < Len(input_tensors[jd[1]].shape)
     /\ jd[2] < SignatureRank(jd[1])
     /\ \/ input_tensors[jd[1]].shape[jd[2] + 1] < SignatureWindow(jd[1], jd[2])[1]
        \/ input_tensors[jd[1]].shape[jd[2] + 1] > SignatureWindow(jd[1], jd[2])[2]}

\* The first out-of-bounds pair: first input in declared order, lowest dimension.
FirstOutOfBounds ==
  CHOOSE jd \in OutOfBounds :
    \A other \in OutOfBounds :
      jd[1] < other[1] \/ (jd[1] = other[1] /\ jd[2] <= other[2])

\* C7: when the backend failure carries a shape phrase (and not the
\* element-type phrase) and some dimension of some input lies outside its
\* window, the call fails with ShapeOutOfBounds for the first such input, and
\* its lowest such dimension, reporting the parameter, the dimension, the
\* bounds and the actual size.
C7_ShapeOutOfBoundsFirst ==
  (BackendFailed /\ DTYPE_PHRASE \notin err.msg /\ ShapePhrase /\ OutOfBounds # {}) =>
    LET jd == FirstOutOfBounds
    IN /\ Outcome = "ShapeOutOfBounds"
       /\ result.error.param = arg_names[jd[1]]
       /\ result.error.dim = jd[2]
       /\ result.error.bounds = SignatureWindow(jd[1], jd[2])
       /\ result.error.actual = input_tensors[jd[1]].shape[jd[2] + 1]

\* C8: when the backend failure carries the stride phrase and neither the
\* element-type nor a shape phrase, the call fails with an error carrying the
\* backend message verbatim, with no details and no parameter attribution.
C8_StrideVerbatim ==
  (BackendFailed /\ STRIDE_PHRASE \in err.msg /\ DTYPE_PHRASE \notin err.msg /\ ~ShapePhrase) =>
    /\ Outcome = "BackendMessage"
    /\ result.error.message = err.msg
    /\ result.error.details = <<>>
    /\ "param" \notin DOMAIN result.error

\* A stride failure on inputs that have both a wrong dtype and an
\* out-of-bounds dimension: still nothing but the message.
C8_Witness ==
  /\ BackendFailed
  /\ err.msg = {STRIDE_PHRASE}
  /\ DtypeMismatches # {}
  /\ OutOfBounds # {}
  /\ Outcome = "BackendMessage"

\* C9: a backend failure whose message has none of the known phrases leaves
\* __call__ as the same exception with the same message; no backend failure
\* ends in Success or is swallowed, and the executor is invoked exactly once
\* in a call that reaches it.
C9_OpaquePropagation ==
  /\ (BackendFailed /\ err.msg \cap Phrases = {}) =>
       (Outcome = "BackendFailure" /\ result.error = err)
  /\ BackendFailed => (result.status = "raised" /\ Len(executions) = 1)
  /\ err # NoError => Len(executions) = 1
  /\ Len(executions) <= 1

\* An unrecognised failure came out unchanged although the inputs have a wrong
\* dtype.
C9_Witness ==
  /\ BackendFailed
  /\ err.msg = {}
  /\ DtypeMismatches # {}
  /\ result = Raised(err)
  /\ Len(executions) = 1

\* C10: on success with n raw outputs, __call__ returns the wrapped tensor
\* itself when n = 1 and otherwise the list of the n wrapped tensors in backend
\* order; the value is a single Tensor exactly when the call signature's
\* return annotation is Tensor, that is, when the compiled signature has
\* exactly one output.
C10_WrapMatchesArity ==
  (pc = "done" /\ result.status = "returned") =>
    LET n == Len(executor_outputs)
        value == result.value
    IN /\ n = 1 => (value.type = "Tensor" /\ value.trace_tensor = executor_outputs[1])
       /\ n # 1 =>
            /\ value.type = "list"
            /\ Len(value.items) = n
            /\ \A i \in 1..n :
                 value.items[i].type = "Tensor" /\ value.items[i].trace_tensor = executor_outputs[i]
       /\ (value.type = "Tensor") <=> (signature.return_annotation = "Tensor")
       /\ (signature.return_annotation = "Tensor") <=> (get_num_output_args(get_signature(executable)) = 1)

\* A call returned a list of two wrapped outputs.
C10_Witness ==
  /\ pc = "done"
  /\ result.status = "returned"
  /\ Len(executor_outputs) = 2
  /\ result.value.type = "list"
  /\ signature.return_annotation = "Sequence[Tensor]"

\* C11: decode_executable(encode_executable(e)) is an Executable with the
\* same argument names in the same order, the same output devices, and the
\* artifact rebuilt from the base64-decoded bytes of the record, which are the
\* artifact's serialized bytes; the signature re-derived from it gives the same
\* shape bounds and dtype for every input and output.
C11_RoundTrip ==
  loaded # <<>> =>
    LET d == loaded[1]
        executable_bytes == b64decode(file[1].executable)
    IN /\ d.arg_names = arg_names
       /\ d.output_devices = output_devices
       /\ executable_bytes = serialize(executable)
       /\ d.executable = RuntimeExecutableFromBytes(executable_bytes)
       /\ d.executable_signature = get_signature(d.executable)
       /\ get_input_info(d.executable_signature) = get_input_info(executable_signature)
       /\ get_output_info(d.executable_signature) = get_output_info(executable_signature)

\* An executable of MaxArgs inputs, a dynamic one among them, and an output
\* was saved and loaded; its base64 text ends in padding.
C11_Witness ==
  /\ loaded # <<>>
  /\ Len(arg_names) = MaxArgs
  /\ output_devices # <<>>
  /\ \E j \in 1..Len(arg_names) : Len(executable_signature.args[j].min) > 0
  /\ file[1].executable[Len(file[1].executable)] = PadChar
  /\ loaded[1].arg_names = arg_names

\* C12: for every argument index of the signature, _get_arg_info gives the
\* pairs (min_d, max_d) of the recorded bounds when there are any, and
\* otherwise one pair (s_d, s_d) per dimension of the literal shape; so a
\* static argument has min = max in every dimension and as many bounds as
\* its rank.
C12_ArgInfoBounds ==
  \A idx \in 0..(Len(executable_signature.args) - 1) :
    LET arg == executable_signature.args[idx + 1]
        shape_bounds == get_arg_info(executable_signature, idx).shape_bounds
    IN IF Len(arg.min) > 0 /\ Len(arg.max) > 0
       THEN /\ Len(shape_bounds) = MinOf(Len(arg.min), Len(arg.max))
            /\ \A d \in 1..Len(shape_bounds) : shape_bounds[d] = <<arg.min[d], arg.max[d]>>
       ELSE /\ Len(shape_bounds) = Len(arg.shape)
            /\ \A d \in 1..Len(shape_bounds) :
                 /\ shape_bounds[d][1] = shape_bounds[d][2]
                 /\ shape_bounds[d][1] = arg.shape[d]

\* A shape failure was reported against the static rank-MaxRank argument a,
\* with the window (s, s) of its literal shape, next to a dynamic argument b.
C12_Witness ==
  /\ pc = "done"
  /\ Outcome = "ShapeOutOfBounds"
  /\ Len(arg_names) = 2
  /\ Len(executable_signature.args[1].min) = 0
  /\ Len(executable_signature.args[1].shape) = MaxRank
  /\ Len(executable_signature.args[2].min) > 0
  /\ result.error.param = "a"
  /\ result.error.bounds = <<MaxDim, MaxDim>>

\* C13 (state part): __signature__ has one POSITIONAL_OR_KEYWORD Tensor
\* parameter per entry of arg_names, in order; the expected argument count is
\* len(arg_names); the return annotation is Tensor exactly when the artifact's
\* signature has one output.
SignatureAsConstructed ==
  /\ Len(signature.parameters) = Len(arg_names)
  /\ \A i \in 1..Len(arg_names) :
       signature.parameters[i] =
         [name |-> arg_names[i], kind |-> "POSITIONAL_OR_KEYWORD", annotation |-> "Tensor"]
  /\ num_expected_args = Len(arg_names)
  /\ (signature.return_annotation = "Tensor")
       <=> (get_num_output_args(get_signature(executable)) = 1)
  /\ signature.return_annotation \in {"Tensor", "Sequence[Tensor]"}

\* C13: the signature is as constructed in every state, and no step of a
\* call, no save, no load and no stream change alters it, the argument names
\* or the expected argument count.
C13_SignatureFrozen ==
  /\ []SignatureAsConstructed
  /\ [][/\ signature' = signature
        /\ arg_names' = arg_names
        /\ num_expected_args' = num_expected_args]_vars

\* A call returned from an executable of MaxArgs inputs and one output, after
\* a stream change, a save and a load.
C13_Witness ==
  /\ pc = "done"
  /\ result.status = "returned"
  /\ stream # DefaultStream
  /\ file # <<>>
  /\ loaded # <<>>
  /\ Len(signature.parameters) = MaxArgs
  /\ signature.return_annotation = "Tensor"

\* C19: in a call that passed binding, eval() has been applied to a prefix of
\* the bound inputs, in bound order; the executor has been entered at most
\* once, and only after every bound input was forced; it was handed the
\* caller's values in declared order and the Executable's output devices.
C19_MaterializeBeforeInvoke ==
  /\ pc = "bind" => (evaluated = <<>> /\ executions = <<>>)
  /\ Len(evaluated) <= Len(input_tensors)
  /\ \A i \in 1..Len(evaluated) : evaluated[i] = input_tensors[i].id
  /\ Len(executions) <= 1
  /\ pc = "materialize" => executions = <<>>
  /\ Len(executions) = 1 =>
       /\ Outcome \notin BindingErrors
       /\ Len(evaluated) = Len(input_tensors)
       /\ executions[1].inputs = LogicalValues
       /\ executions[1].output_devices = output_devices

\* The executor was entered with MaxArgs inputs, one of them passed by
\* keyword, after each was forced, and the call is over.
C19_Witness ==
  /\ pc = "done"
  /\ Len(executions) = 1
  /\ Len(evaluated) = MaxArgs
  /\ NumPositional < MaxArgs
  /\ executions[1].inputs = input_tensors
  /\ executions[1].output_devices # <<>>

\* The ways the specification lets an invocation end.
DeclaredOutcomes ==
  {"Success", "MissingArgument", "ExtraArgument", "ArityMismatch", "UnexpectedDtype",
   "ShapeOutOfBounds", "BackendMessage", "BackendFailure"}

\* C20: every finished invocation ended in Success or in a declared failure
\* kind; a tensor of higher rank than the number of bounds recorded for its
\* argument does not make the shape branch end in an internal error.
C20_DeclaredOutcomes ==
  pc = "done" => Outcome \in DeclaredOutcomes

\* How the requested operation ended, as one word.
OpOutcome ==
  IF op_result.status = "pending" THEN "Pending"
  ELSE IF op_result.status = "returned" THEN "Returned"
  ELSE op_result.error.summary

\* C14: a unary function called with a dtype outside its declared set (exp,
\* tanh, sin, cos, log: float32, float16, bfloat16; rsqrt, sqrt: these and
\* float8; abs: float32, float16, bfloat16, int8, int32) fails with
\* DtypeNotAllowed and no UnaryElementwise node exists; called with a dtype
\* inside the set it builds one node and returns a tensor of the input's dtype.
C14_UnaryDtypeGate ==
  (op_call.fn \in UnaryFunctions /\ op_result # Pending) =>
    LET floats == {"float32", "float16", "bfloat16"}
        T1 == IF op_call.fn \in {"exp", "tanh", "sin", "cos", "log"} THEN floats
              ELSE IF op_call.fn \in {"rsqrt", "sqrt"} THEN floats \cup {"float8"}
              ELSE floats \cup {"int8", "int32"}
    IN IF op_call.input.dtype \in T1
       THEN /\ OpOutcome = "Returned"
            /\ Len(trace) = 1
            /\ trace[1].op = "UnaryElementwise"
            /\ trace[1].inputs = <<op_call.input>>
            /\ op_result.value.dtype = op_call.input.dtype
       ELSE /\ OpOutcome = "DtypeNotAllowed"
            /\ op_result.error.dtype = op_call.input.dtype
            /\ trace = <<>>

\* sqrt of a float8 tensor built its node.
C14_Witness ==
  /\ op_call.fn = "sqrt"
  /\ op_call.input.dtype = "float8"
  /\ OpOutcome = "Returned"
  /\ Len(trace) = 1
  /\ trace[1].kind = "SQRT"

\* C15: squeeze of a tensor whose dtype is one of the eight declared returns
\* a tensor of the same dtype; with dims supplied its shape is the input's
\* without those dimensions, so (1,2,1) with (0,2) gives (2,); with dims left
\* out its shape is the input's without every dimension of size 1; any other
\* dtype is rejected by the gate.
C15_SqueezeShape ==
  (op_call.fn = "squeeze" /\ op_result # Pending) =>
    IF op_call.input.dtype \in
         {"float32", "float16", "bfloat16", "float8", "int8", "int32", "int64", "bool"}
    THEN /\ OpOutcome = "Returned"
         /\ op_result.value.dtype = op_call.input.dtype
         /\ op_call.dims = NoDims =>
              op_result.value.shape = SelectSeq(op_call.input.shape, LAMBDA n : n # 1)
         /\ (op_call.dims = DimsTuple(<<0, 2>>) /\ op_call.input.shape = <<1, 2, 1>>) =>
              op_result.value.shape = <<2>>
         /\ (op_call.dims # NoDims) =>
              Len(op_result.value.shape) = Len(op_call.input.shape) - Len(make_tuple(op_call.dims))
    ELSE OpOutcome = "DtypeNotAllowed"

\* C16: the output of a Convolution node has the rank and the dtype of the
\* node's first input, for every rank from 0 up, whatever the padding, stride,
\* groups and dilations are and whatever the dtype and rank of the weights.
C16_ConvolutionInference ==
  (op_call.fn = "Convolution" /\ op_result # Pending) =>
    /\ OpOutcome = "Returned"
    /\ Len(trace) = 1
    /\ trace[1].op = "Convolution"
    /\ trace[1].outputs = <<op_result.value>>
    /\ op_result.value.rank = op_call.inputs[1].rank
    /\ op_result.value.dtype = op_call.inputs[1].dtype

\* A grouped, strided, padded, dilated convolution of a rank-0 float16 input
\* with int8 weights of rank MaxOpRank was built.
C16_Witness ==
  /\ op_call.fn = "Convolution"
  /\ op_result # Pending
  /\ op_call.inputs = <<TraceTensor("float16", 0), TraceTensor("int8", MaxOpRank)>>
  /\ op_call.groups = 2
  /\ op_call.stride = <<2>>
  /\ op_call.padding = <<<<1, 1>>>>
  /\ op_call.lhs_dilation = <<2>>
  /\ op_call.rhs_dilation = <<2>>
  /\ op_result.value = TraceTensor("float16", 0)

WorkIssued ==
  CASE test_pc \in {"get_devices", "returned", "arg0"} -> 0
    [] test_pc = "arg1" -> 1
    [] test_pc = "arg2" -> 2
    [] test_pc = "execute" -> 3
    [] test_pc = "copy_to_host" -> 4
    [] OTHER -> 5

\* C18: the stream holds, in program order, the part not yet run of the work
\* issued so far (three buffer creations, execute_function, copy_to_host);
\* once stream.sync() has returned the host array is [3.0] = [1.0] + [2.0];
\* with no device the test returns with no buffer created and nothing put on
\* the stream.
C18_AddScenario ==
  /\ Len(stream_queue) <= WorkIssued
  /\ stream_queue = SubSeq(ProgramWork, WorkIssued - Len(stream_queue) + 1, WorkIssued)
  /\ test_pc \in {"print", "done"} => (host_data = <<3>> /\ memrefs.arg2 = <<3>>)
  /\ Len(client_devices) = 0 =>
       /\ test_pc \in {"get_devices", "returned"}
       /\ memrefs = NoMemRefs
       /\ host_data = <<>>

\* The test ran to the end on a machine with a device: the stream is empty
\* and the host array holds the sum.
C18_Witness ==
  /\ test_pc = "done"
  /\ Len(client_devices) >= 1
  /\ host_data = <<3>>
  /\ stream_queue = <<>>

\* Every dimension of every input has a window in the signature and lies
\* within it.
EveryDimensionWithinBounds ==
  \A j \in 1..Len(input_tensors) :
    /\ Len(input_tensors[j].shape) <= SignatureRank(j)
    /\ \A i \in 0..(Len(input_tensors[j].shape) - 1) :
         /\ input_tensors[j].shape[i + 1] >= SignatureWindow(j, i)[1]
         /\ input_tensors[j].shape[i + 1] <= SignatureWindow(j, i)[2]

\* The errors the except block makes up itself.
EnrichedOutcomes == {"UnexpectedDtype", "ShapeOutOfBounds", "BackendMessage"}

\* C21: the element-type phrase is looked for first, then the shape phrases,
\* then the stride phrase, and only the first branch that matches is entered:
\* with the element-type phrase and no input of a wrong dtype the backend
\* failure leaves unchanged, whatever other phrases the message has and
\* whatever the shapes are; with a shape phrase, no element-type phrase and
\* every dimension within its window, it leaves unchanged, with or without the
\* stride phrase; a branch that finds nothing never makes up an error.
C21_FirstBranchOnly ==
  BackendFailed =>
    /\ (DTYPE_PHRASE \in err.msg /\ DtypeMismatches = {}) => result = Raised(err)
    /\ DTYPE_PHRASE \in err.msg => Outcome \in {"UnexpectedDtype", "BackendFailure"}
    /\ (DTYPE_PHRASE \notin err.msg /\ ShapePhrase /\ EveryDimensionWithinBounds) =>
         result = Raised(err)
    /\ (DTYPE_PHRASE \notin err.msg /\ ShapePhrase) => Outcome # "BackendMessage"
    /\ (DTYPE_PHRASE \notin err.msg /\ ShapePhrase /\ OutOfBounds = {}) =>
         Outcome \notin EnrichedOutcomes

\* A failure carrying all four phrases, on inputs of the right dtype with a
\* dimension out of bounds, left unchanged.
C21_Witness ==
  /\ BackendFailed
  /\ err.msg = Phrases
  /\ DtypeMismatches = {}
  /\ OutOfBounds # {}
  /\ result = Raised(err)

\* How an invocation `c` ends when it runs alone and the backend answers with
\* the failure e, or with the outputs when e is NoError.
AloneBinding(c) == BindCall(arg_names, num_expected_args, c.args, c.kwargs)

AloneResult(c, e) ==
  LET b == AloneBinding(c)
  IN IF b.error # NoError THEN Raised(b.error)
     ELSE IF e # NoError
     THEN Raised(TranslateError(e, b.input_tensors, get_signature(executable), arg_names))
     ELSE Returned(Wrap(ExecutorOutputs(get_signature(executable), output_devices)))

\* C22 (state part): each of two interleaved invocations that has finished
\* bound the inputs and ended as it would have alone, given the backend's
\* answer to it.
AsIfAlone ==
  /\ pc = "done" =>
       /\ input_tensors = AloneBinding(call).input_tensors
       /\ result = AloneResult(call, err)
  /\ second.pc = "done" =>
       /\ second.input_tensors = AloneBinding(second.call).input_tensors
       /\ second.result = AloneResult(second.call, second.err)

\* C22: no step of either invocation, and no stream change, alters the
\* argument names, the expected argument count, the output devices, the
\* artifact or the signatures; and every finished invocation ended as if alone.
C22_NoSharedMutableState ==
  /\ []AsIfAlone
  /\ [][/\ arg_names' = arg_names
        /\ num_expected_args' = num_expected_args
        /\ output_devices' = output_devices
        /\ executable' = executable
        /\ executable_signature' = executable_signature
        /\ signature' = signature]_vars

\* Both invocations are over, the executor having been entered by the second
\* before the first: the first returned, the second failed on b's shape.
C22_Witness ==
  /\ pc = "done"
  /\ second.pc = "done"
  /\ Len(executions) = 2
  /\ executions[1].inputs = second.input_tensors
  /\ executions[2].inputs = input_tensors
  /\ result.status = "returned"
  /\ second.result.status = "raised"
  /\ second.result.error.exception = "TripyException"
  /\ "param" \in DOMAIN second.result.error
  /\ second.result.error.param = "a"
  /\ stream # DefaultStream

\* C23: the dispatch of to_flat_ir gives every one of the eight kinds a
\* flat-IR operation type, no two kinds the same one; lowering a
\* UnaryElementwise node appends exactly one operation, of the type of the
\* node's kind, with the node's inputs and outputs unchanged and in order.
C23_ClosedUnaryDispatch ==
  /\ \A k \in UnaryKinds :
       OpType(k) \in {"ExpOp", "TanhOp", "RsqrtOp", "LogOp", "SineOp", "CosineOp", "SqrtOp", "AbsOp"}
  /\ \A k1, k2 \in UnaryKinds : OpType(k1) = OpType(k2) => k1 = k2
  /\ op_call.fn \in UnaryFunctions =>
       /\ flat_ir # <<>> => Len(trace) = 1
       /\ \A i \in 1..Len(flat_ir) :
            /\ trace[1].kind \in UnaryKinds
            /\ flat_ir[i].op = OpType(trace[1].kind)
            /\ flat_ir[i].op # "KeyError"
            /\ flat_ir[i].inputs = <<op_call.input>>
            /\ flat_ir[i].outputs = <<op_result.value>>
       /\ (Len(trace) = 1 /\ trace[1].kind = "SINE" /\ flat_ir # <<>>) => flat_ir[1].op = "SineOp"

\* sin of a float16 tensor was lowered to one SineOp.
C23_Witness ==
  /\ op_call.fn = "sin"
  /\ op_call.input.dtype = "float16"
  /\ Len(flat_ir) = 1
  /\ flat_ir[1] = FlatIRBuild("SineOp", <<op_call.input>>, <<op_result.value>>)

\* C24: lowering a Convolution node appends exactly one ConvolutionOp with the
\* node's inputs and outputs and with padding, stride and both dilations as
\* the node has them and groups as feature_group_count; the node keeps its
\* attributes, and a second lowering gives the same operation.
C24_ConvolutionLowering ==
  op_call.fn = "Convolution" =>
    /\ flat_ir # <<>> => Len(trace) = 1
    /\ trace # <<>> =>
         /\ trace[1].padding = op_call.padding
         /\ trace[1].stride = op_call.stride
         /\ trace[1].groups = op_call.groups
         /\ trace[1].lhs_dilation = op_call.lhs_dilation
         /\ trace[1].rhs_dilation = op_call.rhs_dilation
         /\ trace[1].inputs = op_call.inputs
    /\ \A i \in 1..Len(flat_ir) :
         /\ flat_ir[i].op = "ConvolutionOp"
         /\ flat_ir[i].inputs = op_call.inputs
         /\ flat_ir[i].outputs = <<op_result.value>>
         /\ flat_ir[i].padding = op_call.padding
         /\ flat_ir[i].stride = op_call.stride
         /\ flat_ir[i].feature_group_count = op_call.groups
         /\ flat_ir[i].lhs_dilation = op_call.lhs_dilation
         /\ flat_ir[i].rhs_dilation = op_call.rhs_dilation
         /\ flat_ir[i] = flat_ir[1]

\* A convolution with groups 2 and different dilations was lowered twice.
C24_Witness ==
  /\ op_call.fn = "Convolution"
  /\ op_call.groups = 2
  /\ op_call.lhs_dilation = <<1>>
  /\ op_call.rhs_dilation = <<2>>
  /\ op_call.padding = <<<<1, 1>>>>
  /\ Len(flat_ir) = 2
  /\ flat_ir[1].feature_group_count = 2
  /\ flat_ir[2] = flat_ir[1]

\* C25: abs called with an int64 tensor always fails; the failure is the
\* dtype gate's DtypeNotAllowed for the argument "input" (int64 is not among
\* the dtypes abs declares), never the body's known-issue error, and no ABS
\* node is built or lowered.
C25_AbsInt64Rejected ==
  (op_call.fn = "abs" /\ op_call.input.dtype = "int64") =>
    /\ trace = <<>>
    /\ flat_ir = <<>>
    /\ op_result # Pending =>
         /\ op_result.status = "raised"
         /\ op_result.error # KnownIssueI64
         /\ op_result.error.summary = "DtypeNotAllowed"
         /\ op_result.error.function = "abs"
         /\ op_result.error.param = "input"
         /\ op_result.error.dtype = "int64"
         /\ "int64" \notin op_result.error.allowed

\* abs of an int64 tensor has been rejected by the gate.
C25_Witness ==
  /\ op_call.fn = "abs"
  /\ op_call.input.dtype = "int64"
  /\ op_result = Raised(DtypeNotAllowed("abs", "input", "int64",
                          {"float32", "float16", "bfloat16", "int8", "int32"}))
  /\ trace = <<>>

\* C26: the record written for an Executable has exactly the fields
\* arg_names, output_devices and executable, the last being the base64 text of
\* the artifact's serialized bytes, so the derived signature is no part of it;
\* the signature of a loaded Executable is the one its constructor derives
\* from the artifact restored out of the record.
C26_RecordWithoutSignature ==
  /\ file # <<>> =>
       /\ Len(file) = 1
       /\ DOMAIN file[1] = {"arg_names", "output_devices", "executable"}
       /\ file[1].arg_names = arg_names
       /\ file[1].output_devices = output_devices
       /\ file[1].executable = b64encode(serialize(executable))
  /\ loaded # <<>> =>
       LET restored == RuntimeExecutableFromBytes(b64decode(file[1].executable))
       IN /\ loaded[1].executable = restored
          /\ loaded[1].executable_signature = get_signature(restored)
          /\ loaded[1].signature = Signature(file[1].arg_names, get_signature(restored))
          /\ loaded[1].num_expected_args = Len(file[1].arg_names)

\* An executable of one argument whose dtype is not f32 was saved and loaded.
C26_Witness ==
  /\ file # <<>>
  /\ loaded # <<>>
  /\ Len(arg_names) = 1
  /\ executable_signature.args[1].dtype # "f32"
  /\ DOMAIN file[1] = {"arg_names", "output_devices", "executable"}
  /\ loaded[1].executable_signature = executable_signature

====
